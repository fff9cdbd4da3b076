------------------------- MODULE NorFlashProofs -------------------------
(***************************************************************************)
(* Proofs about the flash driver, for every chip geometry, partition table *)
(* and request size.  First the structure of the operations, which holds   *)
(* even when waits fail; then, for aligned partitions and a chip whose     *)
(* waits succeed, the coherence of the line with the chip and the          *)
(* implementation of the flat disk.                                        *)
(***************************************************************************)
EXTENDS NorFlash, FiniteSetTheorems, TLAPS

-----------------------------------------------------------------------------
(* Addresses: quotient and remainder by the sector length.                 *)

LEMMA DivMod ==
  ASSUME NEW a \in Nat
  PROVE  /\ SectorOf(a) \in Nat /\ OffOf(a) \in Idx
         /\ a = SectorLen * SectorOf(a) + OffOf(a)
  BY GeometryAssumption DEF SectorOf, OffOf, Idx

LEMMA TimesMonotone ==
  ASSUME NEW x \in Nat, NEW y \in Nat, x <= y
  PROVE  SectorLen * x <= SectorLen * y
  BY GeometryAssumption

LEMMA Unique ==
  ASSUME NEW q \in Nat, NEW r \in Idx
  PROVE  SectorOf(SectorLen * q + r) = q /\ OffOf(SectorLen * q + r) = r
  BY GeometryAssumption DEF SectorOf, OffOf, Idx

\* A block of the chip lies in a sector of the chip.
LEMMA BlockInSector ==
  ASSUME NEW b \in Blocks
  PROVE  b \in Nat /\ SectorOf(b) \in Sectors /\ OffOf(b) \in Idx
<1>1. b \in Nat /\ b < NumSectors * SectorLen
  BY GeometryAssumption DEF Blocks
<1>2. SectorOf(b) \in Nat /\ OffOf(b) \in Idx
      /\ b = SectorLen * SectorOf(b) + OffOf(b)
  BY <1>1, DivMod
<1>3. ASSUME SectorOf(b) >= NumSectors PROVE FALSE
  <2>1. SectorLen * NumSectors <= SectorLen * SectorOf(b)
    BY <1>2, <1>3, TimesMonotone, GeometryAssumption
  <2>2. SectorLen * NumSectors \in Nat /\ SectorLen * SectorOf(b) \in Nat
    BY <1>2, GeometryAssumption
  <2>3. OffOf(b) \in Nat
    BY <1>2, GeometryAssumption DEF Idx
  <2> QED BY <1>1, <1>2, <2>1, <2>2, <2>3, GeometryAssumption
<1> QED BY <1>1, <1>2, <1>3, GeometryAssumption DEF Sectors

\* Going k blocks on without leaving the sector.
LEMMA SameSector ==
  ASSUME NEW a \in Nat, NEW k \in Nat, OffOf(a) + k < SectorLen
  PROVE  SectorOf(a + k) = SectorOf(a) /\ OffOf(a + k) = OffOf(a) + k
<1>1. SectorOf(a) \in Nat /\ OffOf(a) \in Idx
      /\ a = SectorLen * SectorOf(a) + OffOf(a)
  BY DivMod
<1>2. OffOf(a) + k \in Idx
  BY <1>1, GeometryAssumption DEF Idx
<1>3. SectorLen * SectorOf(a) \in Nat /\ OffOf(a) \in Nat
  BY <1>1, GeometryAssumption DEF Idx
<1>4. a + k = SectorLen * SectorOf(a) + (OffOf(a) + k)
  BY <1>1, <1>3
<1> HIDE DEF SectorOf, OffOf
<1> QED BY <1>1, <1>2, <1>4, Unique

\* The blocks a .. a + n - 1 of one sector are its offsets from OffOf(a) on.
LEMMA ChunkRange ==
  ASSUME NEW a \in Nat, NEW n \in Nat, OffOf(a) + n <= SectorLen, NEW b \in Nat
  PROVE  (b >= a /\ b < a + n) <=>
         (SectorOf(b) = SectorOf(a) /\ OffOf(b) >= OffOf(a) /\ OffOf(b) < OffOf(a) + n)
<1>1. /\ SectorOf(a) \in Nat /\ OffOf(a) \in Idx
      /\ a = SectorLen * SectorOf(a) + OffOf(a)
      /\ SectorOf(b) \in Nat /\ OffOf(b) \in Idx
      /\ b = SectorLen * SectorOf(b) + OffOf(b)
  BY DivMod
<1>2. SectorLen * SectorOf(a) \in Nat /\ OffOf(a) \in Nat /\ OffOf(b) \in Nat
  BY <1>1, GeometryAssumption DEF Idx
<1>3. ASSUME b >= a, b < a + n
      PROVE  SectorOf(b) = SectorOf(a) /\ OffOf(b) = OffOf(a) + (b - a)
  <2>1. b - a \in Nat /\ OffOf(a) + (b - a) < SectorLen /\ a + (b - a) = b
    BY <1>2, <1>3, GeometryAssumption
  <2> QED BY <2>1, SameSector
<1>4. ASSUME SectorOf(b) = SectorOf(a)
      PROVE  b - a = OffOf(b) - OffOf(a)
  BY <1>1, <1>2, <1>4
<1> QED BY <1>2, <1>3, <1>4, GeometryAssumption

-----------------------------------------------------------------------------
(* Counting the open partitions, commands, and the rest of a request.      *)

LEMMA OpenCount ==
  ASSUME NEW O \in SUBSET Parts
  PROVE  /\ Cardinality(O) \in Nat
         /\ Cardinality(O) = 0 <=> O = {}
         /\ \A p \in Parts \ O : Cardinality(O \cup {p}) = Cardinality(O) + 1
         /\ \A p \in O : Cardinality(O \ {p}) = Cardinality(O) - 1
<1>1. IsFiniteSet(O)
  BY PartAssumption, FS_Subset
<1> QED BY <1>1, FS_CardinalityType, FS_EmptySet, FS_AddElement, FS_RemoveElement

LEMMA WaitResult == \A n : WaitOk(n) \in {0, 1}
  BY DEF WaitOk

\* On a healthy chip every wait succeeds in time.
LEMMA HealthyWait ==
  ASSUME Healthy, NEW n \in ChipPolls
  PROVE  WaitOk(n) = 0 /\ ~(n > MaxPolls)
<1>1. n \in 1 .. MaxPolls - 1
  BY DEF Healthy
<1>2. MaxPolls - n \in 1 .. TimeoutMod - 1
  BY <1>1, PollAssumption
<1>3. (MaxPolls - n) % TimeoutMod = MaxPolls - n
  BY <1>2, PollAssumption
<1> QED BY <1>1, <1>2, <1>3, PollAssumption DEF WaitOk

LEMMA CommandType ==
  ASSUME flash \in [Sectors -> Line], NEW effect \in [Sectors -> Line],
         Command(effect)
  PROVE  flash' \in [Sectors -> Line] /\ chip' \in {"ready", "busy"} /\ reg' \in {0, 1}
  BY WaitResult DEF Command

LEMMA RestOfRequest ==
  ASSUME NEW r \in [addr : Nat, data : Seq(Cell), raw : BOOLEAN],
         NEW n \in 1 .. Len(r.data)
  PROVE  /\ Rest(r, n) \in [addr : Nat, data : Seq(Cell), raw : BOOLEAN]
         /\ Rest(r, n) # NoRequest =>
              /\ n < Len(r.data)
              /\ Rest(r, n) = [addr |-> r.addr + n,
                               data |-> SubSeq(r.data, n + 1, Len(r.data)),
                               raw  |-> r.raw]
              /\ Len(Rest(r, n).data) = Len(r.data) - n
              /\ Rest(r, n).data # << >>
         /\ n < Len(r.data) => Rest(r, n) # NoRequest
<1>1. Len(r.data) \in Nat /\ n \in Nat /\ n >= 1
  OBVIOUS
<1>2. CASE n >= Len(r.data)
  <2>1. Rest(r, n) = NoRequest
    BY <1>2 DEF Rest
  <2>2. NoRequest \in [addr : Nat, data : Seq(Cell), raw : BOOLEAN]
    BY DEF NoRequest
  <2> QED BY <1>1, <1>2, <2>1, <2>2
<1>3. CASE n < Len(r.data)
  <2>1. Rest(r, n) = [addr |-> r.addr + n,
                      data |-> SubSeq(r.data, n + 1, Len(r.data)), raw |-> r.raw]
    BY <1>1, <1>3 DEF Rest
  <2>2. SubSeq(r.data, n + 1, Len(r.data)) \in Seq(Cell)
        /\ Len(SubSeq(r.data, n + 1, Len(r.data))) = Len(r.data) - n
    BY <1>1, <1>3
  <2>3. SubSeq(r.data, n + 1, Len(r.data)) # << >>
    <3>1. Len(<< >>) = 0
      OBVIOUS
    <3>2. Len(SubSeq(r.data, n + 1, Len(r.data))) # 0
      BY <1>1, <1>3, <2>2
    <3> QED BY <3>1, <3>2
  <2> QED BY <1>1, <1>3, <2>1, <2>2, <2>3 DEF NoRequest
<1> QED BY <1>1, <1>2, <1>3

\* What is left of a request stays in the region of its partition.
LEMMA RestInRegion ==
  ASSUME NEW r \in [addr : Nat, data : Seq(Cell), raw : BOOLEAN],
         NEW n \in 1 .. Len(r.data), InRegion(r), Rest(r, n) # NoRequest
  PROVE  InRegion(Rest(r, n))
<1>1. /\ n < Len(r.data) /\ Len(r.data) \in Nat /\ n \in Nat
      /\ Rest(r, n).addr = r.addr + n /\ Rest(r, n).raw = r.raw
      /\ Len(Rest(r, n).data) = Len(r.data) - n
  BY RestOfRequest
<1>2. PICK p \in opened : r.raw = (p \notin CachedParts) /\ Fits(p, r.addr, Len(r.data))
  BY DEF InRegion
<1>3. ASSUME NEW k \in 0 .. Len(r.data) - n - 1
      PROVE  (r.addr + n) + k \in Region[p]
  <2>1. n + k \in 0 .. Len(r.data) - 1
    BY <1>1, <1>3
  <2>2. r.addr + (n + k) \in Region[p]
    BY <1>2, <2>1 DEF Fits
  <2> QED BY <1>1, <2>2, <1>3
<1>4. Fits(p, Rest(r, n).addr, Len(Rest(r, n).data))
  BY <1>1, <1>3 DEF Fits
<1> QED BY <1>1, <1>2, <1>4 DEF InRegion

\* The first block of a request that fits is a block of the chip.
LEMMA FirstBlock ==
  ASSUME TypeOK, req # NoRequest, InRegion(req), req.data # << >>
  PROVE  /\ req.addr \in Blocks /\ Len(req.data) \in Nat \ {0}
         /\ SectorOf(req.addr) \in Sectors /\ OffOf(req.addr) \in Idx
<1>1. req.addr \in Nat /\ req.data \in Seq(Cell) /\ Len(req.data) \in Nat \ {0}
  BY DEF TypeOK
<1>2. PICK p \in opened : Fits(p, req.addr, Len(req.data))
  BY DEF InRegion
<1>3. req.addr + 0 \in Region[p]
  BY <1>1, <1>2 DEF Fits
<1>4. Region[p] \subseteq Blocks
  BY <1>2, PartAssumption DEF TypeOK
<1>5. req.addr \in Blocks
  BY <1>1, <1>3, <1>4
<1> QED BY <1>1, <1>5, BlockInSector

\* The piece of a request that falls into the line.
LEMMA ChunkFacts ==
  ASSUME NEW r \in [addr : Nat, data : Seq(Cell), raw : BOOLEAN], r.data # << >>
  PROVE  /\ ChunkLen(r) \in 1 .. Len(r.data)
         /\ OffOf(r.addr) + ChunkLen(r) <= SectorLen
         /\ (r.addr + ChunkLen(r)) % SectorLen # 0 => Rest(r, ChunkLen(r)) = NoRequest
<1>1. Len(r.data) \in Nat \ {0} /\ r.addr \in Nat
  OBVIOUS
<1>2. OffOf(r.addr) \in Nat /\ OffOf(r.addr) < SectorLen /\ SectorLen \in Nat
  <2>1. OffOf(r.addr) \in Idx
    BY <1>1, DivMod
  <2> QED BY <2>1, GeometryAssumption DEF Idx
<1>3. ChunkLen(r) \in 1 .. Len(r.data) /\ OffOf(r.addr) + ChunkLen(r) <= SectorLen
      /\ (ChunkLen(r) = Len(r.data) \/ OffOf(r.addr) + ChunkLen(r) = SectorLen)
  BY <1>1, <1>2 DEF ChunkLen
<1>4. ASSUME OffOf(r.addr) + ChunkLen(r) = SectorLen
      PROVE  (r.addr + ChunkLen(r)) % SectorLen = 0
  <2>1. SectorOf(r.addr) \in Nat /\ r.addr = SectorLen * SectorOf(r.addr) + OffOf(r.addr)
    BY <1>1, DivMod
  <2>2. SectorLen * SectorOf(r.addr) \in Nat
        /\ SectorLen * (SectorOf(r.addr) + 1) = SectorLen * SectorOf(r.addr) + SectorLen
    BY <2>1, GeometryAssumption
  <2>3. r.addr + ChunkLen(r) = SectorLen * (SectorOf(r.addr) + 1) + 0
    BY <1>1, <1>2, <1>3, <1>4, <2>1, <2>2
  <2>4. SectorOf(r.addr) + 1 \in Nat /\ 0 \in Idx
    BY <2>1, GeometryAssumption DEF Idx
  <2>5. OffOf(SectorLen * (SectorOf(r.addr) + 1) + 0) = 0
    BY <2>4, Unique
  <2> QED BY <2>3, <2>5 DEF OffOf
<1>5. ASSUME (r.addr + ChunkLen(r)) % SectorLen # 0
      PROVE  Rest(r, ChunkLen(r)) = NoRequest
  BY <1>1, <1>3, <1>4, <1>5 DEF Rest
<1> QED BY <1>3, <1>5

-----------------------------------------------------------------------------
(* The structure of the operations, whatever the waits return.             *)

LEMMA StructureInit == Init => Structure
<1> SUFFICES ASSUME Init PROVE Structure
  OBVIOUS
<1>1. Cardinality({}) = 0 /\ {} \in SUBSET Parts
  BY FS_EmptySet
<1>2. NoRequest \in [addr : Nat, data : Seq(Cell), raw : BOOLEAN]
  BY DEF NoRequest
<1>3. 0 \in Sectors
  BY GeometryAssumption DEF Sectors
<1>4. TypeOK
  BY <1>1, <1>2, <1>3 DEF Init, TypeOK
<1> QED BY <1>4 DEF Init, Structure

LEMMA OpenKeepsStructure ==
  ASSUME Structure, NEW p \in Parts, Open(p) PROVE Structure'
<1>1. Cardinality(opened') = openCnt + 1
  BY OpenCount DEF Open, Structure, TypeOK
<1>2. 0 \in Sectors /\ Loaded(0) \subseteq Line
  BY GeometryAssumption DEF Sectors, Loaded, Structure, TypeOK
<1>3. openCnt = 0 <=> opened = {}
  BY OpenCount DEF Structure, TypeOK
<1>4. NoBuf \notin Line
  BY GeometryAssumption DEF NoBuf, Line, Idx
<1>5. TypeOK'
  BY <1>1, <1>2 DEF Open, Structure, TypeOK
<1>6. req' = NoRequest
  BY DEF Open, Structure
<1> QED BY <1>2, <1>3, <1>4, <1>5, <1>6 DEF Open, Structure

LEMMA CloseKeepsStructure ==
  ASSUME Structure, NEW p \in Parts, Close(p) PROVE Structure'
<1>1. /\ Cardinality(opened') = openCnt - 1 /\ openCnt \in Nat /\ openCnt # 0
      /\ openCnt' = openCnt - 1
      /\ openCnt' = 0 <=> opened' = {}
  <2>1. p \in opened /\ opened' = opened \ {p} /\ opened' \in SUBSET Parts
        /\ openCnt = Cardinality(opened)
    BY DEF Close, Structure, TypeOK
  <2>2. openCnt \in Nat /\ openCnt # 0 /\ Cardinality(opened') = openCnt - 1
    BY <2>1, OpenCount DEF Structure, TypeOK
  <2>3. Cardinality(opened') = 0 <=> opened' = {}
    BY <2>1, OpenCount
  <2> QED BY <2>1, <2>2, <2>3 DEF Close
<1>2. TypeOK'
  BY <1>1 DEF Close, Structure, TypeOK
<1>3. req' = NoRequest /\ pc = "idle" /\ why = "none"
  BY DEF Close, Structure
<1>4. CASE opened' = {} /\ dirty
  <2>1. pc' = "erase" /\ why' = "close" /\ cacheBuf' = cacheBuf /\ cacheBuf # NoBuf
    BY <1>1, <1>3, <1>4 DEF Close, Structure
  <2>2. dirty' = FALSE
    BY <1>1, <1>4 DEF Close
  <2> QED BY <1>2, <1>3, <1>4, <2>1, <2>2 DEF Structure
<1>5. CASE ~(opened' = {} /\ dirty)
  <2>1. pc' = "idle" /\ why' = "none"
        /\ cacheBuf' = IF opened' = {} THEN NoBuf ELSE cacheBuf
    BY <1>1, <1>3, <1>5 DEF Close
  <2>2. cacheBuf # NoBuf
    BY <1>3 DEF Close, Structure
  <2>3. ASSUME opened' = {} PROVE dirty' = FALSE
    BY <1>1, <2>3 DEF Close
  <2> QED BY <1>2, <1>3, <2>1, <2>2, <2>3 DEF Structure
<1> QED BY <1>4, <1>5

LEMMA WriteKeepsStructure ==
  ASSUME Structure, WriteAny PROVE Structure'
<1>1. PICK p \in Parts, n \in 1 .. MaxLen : \E a \in Region[p] :
        Fits(p, a, n) /\ \E data \in [1 .. n -> Cell] : Write(p, a, data)
  BY DEF WriteAny
<1>2. PICK a \in Region[p] :
        Fits(p, a, n) /\ \E data \in [1 .. n -> Cell] : Write(p, a, data)
  BY <1>1
<1>3. PICK data \in [1 .. n -> Cell] : Write(p, a, data)
  BY <1>2
<1>4. /\ n \in Nat \ {0} /\ data \in Seq(Cell) /\ Len(data) = n
      /\ a \in Nat
  <2>1. n \in Nat \ {0}
    BY GeometryAssumption
  <2>2. a \in Blocks
    BY PartAssumption
  <2> QED BY <2>1, <2>2, BlockInSector
<1>5. req' \in [addr : Nat, data : Seq(Cell), raw : BOOLEAN]
  BY <1>3, <1>4 DEF Write
<1>6. TypeOK'
  BY <1>3, <1>5 DEF Write, Structure, TypeOK
<1>7. req'.data # << >> /\ req' # NoRequest
  <2>1. Len(<< >>) = 0
    OBVIOUS
  <2> QED BY <1>3, <1>4, <2>1 DEF Write, NoRequest
<1>8. InRegion(req)'
  BY <1>2, <1>3, <1>4 DEF Write, InRegion, Fits
<1>9. opened' = opened /\ opened # {} /\ why = "none" /\ cacheBuf' = cacheBuf
  BY <1>3 DEF Write, Structure
<1> QED BY <1>3, <1>6, <1>7, <1>8, <1>9 DEF Write, Structure

LEMMA FillKeepsStructure ==
  ASSUME Structure, Fill PROVE Structure'
<1> DEFINE n == ChunkLen(req)
<1>1. /\ pc = "fill" /\ why = "write" /\ req # NoRequest /\ InRegion(req)
      /\ req.data # << >> /\ opened # {} /\ cacheBuf # NoBuf /\ ~req.raw
      /\ req \in [addr : Nat, data : Seq(Cell), raw : BOOLEAN]
  BY DEF Fill, Structure, TypeOK
<1>2. /\ req.addr \in Nat /\ Len(req.data) \in Nat \ {0}
      /\ SectorOf(req.addr) \in Sectors /\ OffOf(req.addr) \in Idx
  BY <1>1, FirstBlock DEF Structure
<1>3. n \in 1 .. Len(req.data) /\ OffOf(req.addr) + n <= SectorLen
      /\ ((req.addr + n) % SectorLen # 0 => Rest(req, n) = NoRequest)
  BY <1>1, ChunkFacts
<1>4. /\ req' = Rest(req, n)
      /\ Rest(req, n) \in [addr : Nat, data : Seq(Cell), raw : BOOLEAN]
      /\ Rest(req, n) # NoRequest => InRegion(Rest(req, n)) /\ Rest(req, n).data # << >>
                                     /\ Rest(req, n).raw = req.raw
  BY <1>1, <1>3, RestOfRequest, RestInRegion DEF Fill
<1>5. cacheBuf' \in Line /\ cacheBuf' # NoBuf
  <2>1. PICK line \in IF SectorOf(req.addr) = cacheSector THEN {cacheBuf}
                      ELSE Loaded(SectorOf(req.addr)) :
          cacheBuf' = Merged(line, req, n)
    BY DEF Fill
  <2>2. line \in Line
    BY <1>1, <1>2, <2>1 DEF Loaded, Structure, TypeOK
  <2>3. ASSUME NEW i \in Idx, i >= OffOf(req.addr), i < OffOf(req.addr) + n
        PROVE  req.data[i - OffOf(req.addr) + 1] \in Cell
    <3>1. i - OffOf(req.addr) + 1 \in 1 .. Len(req.data)
      BY <1>2, <1>3, <2>3, GeometryAssumption DEF Idx
    <3> QED BY <1>1, <3>1
  <2>4. Merged(line, req, n) \in Line
    BY <2>2, <2>3 DEF Merged, Line
  <2>5. NoBuf \notin Line
    BY GeometryAssumption DEF NoBuf, Line, Idx
  <2> QED BY <2>1, <2>4, <2>5
<1>6. /\ cacheSector' = SectorOf(req.addr)
      /\ UNCHANGED <<flash, chip, opened, openCnt, reg, spent>>
      /\ \/ pc' = "idle" /\ why' = "none" /\ dirty' = TRUE /\ req' = NoRequest
            /\ hnd' \in BOOLEAN /\ timer' \in {"off", "armed", "fired"}
         \/ pc' = "erase" /\ why' = "through" /\ dirty' = FALSE
            /\ UNCHANGED timerVars
  BY <1>3, <1>4 DEF Fill, Idle, Arm, timerVars, Structure, TypeOK
<1>7. TypeOK'
  BY <1>2, <1>4, <1>5, <1>6 DEF Structure, TypeOK, timerVars
<1>8. InRegion(req)' = InRegion(req')
  BY <1>6 DEF InRegion, Fits
<1>9. ~req'.raw
  BY <1>1, <1>4 DEF NoRequest
<1>10. InRegion(Rest(req, n)) = InRegion(req)'
  BY <1>4, <1>6 DEF InRegion, Fits
<1> QED BY <1>1, <1>4, <1>5, <1>6, <1>7, <1>9, <1>10 DEF Structure

LEMMA EraseKeepsStructure ==
  ASSUME Structure, Erase PROVE Structure'
<1>1. /\ pc = "erase" /\ why \in {"evict", "through", "timer", "close"}
      /\ cacheBuf # NoBuf /\ dirty = FALSE
      /\ UNCHANGED <<opened, openCnt, cacheSector, cacheBuf, dirty, hnd>>
  BY DEF Erase, Structure, TypeOK
<1>2. ErasedAt(cacheSector) \in [Sectors -> Line]
  BY DEF ErasedAt, Line, Cell, Erased, Structure, TypeOK
<1>3. flash' \in [Sectors -> Line] /\ chip' \in {"ready", "busy"} /\ reg' \in {0, 1}
  BY <1>2, CommandType DEF Erase, Structure, TypeOK
<1>4. CASE reg' = 0 \/ why = "close"
  <2>1. pc' = "program" /\ UNCHANGED <<why, req, timer, spent>>
    BY <1>4 DEF Erase
  <2>2. TypeOK'
    BY <1>1, <1>3, <2>1 DEF Structure, TypeOK
  <2>3. InRegion(req)' = InRegion(req)
    BY <1>1, <2>1 DEF InRegion, Fits
  <2> QED BY <1>1, <2>1, <2>2, <2>3 DEF Structure
<1>5. CASE ~(reg' = 0 \/ why = "close")
  <2>1. /\ pc' = "idle" /\ why' = "none" /\ req' = NoRequest
        /\ timer' \in {"off", "armed", "fired"} /\ spent' \in BOOLEAN
    BY <1>5 DEF Erase, End, Idle, Structure, TypeOK
  <2>2. NoRequest \in [addr : Nat, data : Seq(Cell), raw : BOOLEAN]
    BY DEF NoRequest
  <2>3. TypeOK'
    BY <1>1, <1>3, <2>1, <2>2 DEF Structure, TypeOK
  <2>4. ~req'.raw
    BY <2>1 DEF NoRequest
  <2>5. opened # {}
    BY <1>1, <1>5 DEF Structure
  <2> QED BY <1>1, <2>1, <2>3, <2>4, <2>5 DEF Structure
<1> QED BY <1>4, <1>5

LEMMA ProgramKeepsStructure ==
  ASSUME Structure, Program PROVE Structure'
<1>1. /\ pc = "program" /\ why \in {"evict", "through", "timer", "close"}
      /\ cacheBuf # NoBuf /\ cacheBuf \in Line /\ dirty = FALSE
      /\ UNCHANGED <<opened, openCnt, cacheSector, dirty, spent>>
      /\ cacheBuf' = IF why = "close" THEN NoBuf ELSE cacheBuf
  BY DEF Program, Structure, TypeOK
<1>2. ProgrammedAt(cacheSector) \in [Sectors -> Line]
  BY <1>1 DEF ProgrammedAt, Line, Cell, Structure, TypeOK
<1>3. flash' \in [Sectors -> Line] /\ chip' \in {"ready", "busy"} /\ reg' \in {0, 1}
  BY <1>2, CommandType DEF Program, Structure, TypeOK
<1>4. hnd' \in BOOLEAN /\ timer' \in {"off", "armed", "fired"}
  BY DEF Program, timerVars, Structure, TypeOK
<1>5. CASE why \in {"evict", "through"} /\ reg' = 0 /\ req # NoRequest
  <2>1. pc' = "fill" /\ why' = "write" /\ req' = req /\ cacheBuf' = cacheBuf
    BY <1>1, <1>5 DEF Program
  <2>2. TypeOK'
    BY <1>1, <1>3, <1>4, <2>1 DEF Structure, TypeOK
  <2>3. InRegion(req)' = InRegion(req)
    BY <1>1, <2>1 DEF InRegion, Fits
  <2>4. ~req.raw
    BY <1>5 DEF Structure
  <2> QED BY <1>1, <1>5, <2>1, <2>2, <2>3, <2>4 DEF Structure
<1>6. CASE ~(why \in {"evict", "through"} /\ reg' = 0 /\ req # NoRequest)
  <2>1. pc' = "idle" /\ why' = "none" /\ req' = NoRequest
    BY <1>6 DEF Program, End, Idle
  <2>2. NoRequest \in [addr : Nat, data : Seq(Cell), raw : BOOLEAN]
    BY DEF NoRequest
  <2>3. TypeOK'
    BY <1>1, <1>3, <1>4, <2>1, <2>2 DEF Structure, TypeOK
  <2>4. why = "close" <=> opened = {}
    BY <1>1 DEF Structure
  <2> QED BY <1>1, <2>1, <2>3, <2>4 DEF Structure
<1> QED BY <1>5, <1>6

LEMMA ProgramRawKeepsStructure ==
  ASSUME Structure, ProgramRaw PROVE Structure'
<1> DEFINE s == SectorOf(req.addr)
           i == OffOf(req.addr)
           effect == [flash EXCEPT ![s][i] = @ \cap req.data[1]]
<1>1. /\ pc = "raw" /\ why = "write" /\ req # NoRequest /\ InRegion(req)
      /\ req.data # << >> /\ req.raw /\ opened # {}
      /\ req \in [addr : Nat, data : Seq(Cell), raw : BOOLEAN]
      /\ UNCHANGED <<opened, openCnt, cacheSector, cacheBuf, dirty, hnd, timer, spent>>
  BY DEF ProgramRaw, Structure, TypeOK
<1>2. s \in Sectors /\ i \in Idx /\ 1 \in 1 .. Len(req.data)
  BY <1>1, FirstBlock DEF Structure
<1>3. effect \in [Sectors -> Line]
  <2>1. flash[s] \in Line /\ flash[s][i] \in Cell
    BY <1>2 DEF Line, Structure, TypeOK
  <2>2. [flash[s] EXCEPT ![i] = @ \cap req.data[1]] \in Line
    BY <1>2, <2>1 DEF Line, Cell
  <2> QED BY <1>2, <2>2 DEF Structure, TypeOK
<1>4. flash' \in [Sectors -> Line] /\ chip' \in {"ready", "busy"} /\ reg' \in {0, 1}
  <2>1. Command(effect)
    BY DEF ProgramRaw
  <2> HIDE DEF effect
  <2> QED BY <1>3, <2>1, CommandType DEF Structure, TypeOK
<1>5. CASE req' = NoRequest
  <2>1. pc' = "idle" /\ why' = "none"
    BY <1>5 DEF ProgramRaw, Idle
  <2>2. NoRequest \in [addr : Nat, data : Seq(Cell), raw : BOOLEAN]
    BY DEF NoRequest
  <2>3. TypeOK'
    BY <1>1, <1>4, <1>5, <2>1, <2>2 DEF Structure, TypeOK
  <2> QED BY <1>1, <1>5, <2>1, <2>3 DEF Structure
<1>6. CASE req' # NoRequest
  <2>1. pc' = "raw" /\ why' = "write" /\ req' = Rest(req, 1)
    BY <1>1, <1>6 DEF ProgramRaw
  <2>2. /\ req' \in [addr : Nat, data : Seq(Cell), raw : BOOLEAN]
        /\ InRegion(Rest(req, 1)) /\ req'.data # << >> /\ req'.raw
    BY <1>1, <1>2, <1>6, <2>1, RestOfRequest, RestInRegion
  <2>3. InRegion(req)' = InRegion(Rest(req, 1))
    BY <1>1, <2>1 DEF InRegion, Fits
  <2>4. TypeOK'
    BY <1>1, <1>4, <2>1, <2>2 DEF Structure, TypeOK
  <2> QED BY <1>1, <1>6, <2>1, <2>2, <2>3, <2>4 DEF Structure
<1> QED BY <1>5, <1>6

LEMMA EraseIoctlKeepsStructure ==
  ASSUME Structure, NEW p \in Parts, NEW b \in Region[p], EraseIoctl(p, b)
  PROVE  Structure'
<1>1. SectorOf(b) \in Sectors
  BY PartAssumption, BlockInSector
<1>2. ErasedAt(SectorOf(b)) \in [Sectors -> Line]
  BY <1>1 DEF ErasedAt, Line, Cell, Erased, Structure, TypeOK
<1>3. flash' \in [Sectors -> Line] /\ chip' \in {"ready", "busy"} /\ reg' \in {0, 1}
  BY <1>2, CommandType DEF EraseIoctl, Structure, TypeOK
<1>4. UNCHANGED <<opened, openCnt, cacheSector, cacheBuf, dirty, hnd, timer, pc, why, req,
                  spent>>
  BY DEF EraseIoctl
<1>5. TypeOK'
  BY <1>3, <1>4 DEF Structure, TypeOK
<1>6. InRegion(req)' = InRegion(req)
  BY <1>4 DEF InRegion, Fits
<1> QED BY <1>4, <1>5, <1>6 DEF Structure

LEMMA TimerKeepsStructure ==
  ASSUME Structure, TimerExpires \/ TimerCallback \/ ChipReady PROVE Structure'
<1>1. UNCHANGED <<flash, opened, openCnt, cacheSector, cacheBuf, req, reg, spent>>
  BY DEF TimerExpires, TimerCallback, ChipReady, cacheVars
<1>2. InRegion(req)' = InRegion(req)
  BY <1>1 DEF InRegion, Fits
<1>3. TypeOK'
  <2>1. CASE TimerExpires \/ ChipReady
    BY <1>1, <2>1 DEF TimerExpires, ChipReady, cacheVars, Structure, TypeOK
  <2>2. CASE TimerCallback /\ dirty
    BY <1>1, <2>2 DEF TimerCallback, timerVars, Structure, TypeOK
  <2>3. CASE TimerCallback /\ ~dirty
    BY <1>1, <2>3 DEF TimerCallback, timerVars, Structure, TypeOK
  <2> QED BY <2>1, <2>2, <2>3
<1>4. CASE TimerExpires \/ ChipReady
  BY <1>1, <1>2, <1>3, <1>4 DEF TimerExpires, ChipReady, cacheVars, Structure
<1>5. CASE TimerCallback /\ dirty
  <2>1. pc' = "erase" /\ why' = "timer" /\ dirty' = FALSE /\ pc = "idle"
    BY <1>5 DEF TimerCallback
  <2> QED BY <1>1, <1>2, <1>3, <1>5, <2>1 DEF Structure
<1>6. CASE TimerCallback /\ ~dirty
  <2>1. UNCHANGED <<pc, why, dirty>> /\ pc = "idle"
    BY <1>6 DEF TimerCallback
  <2> QED BY <1>1, <1>2, <1>3, <2>1 DEF Structure
<1> QED BY <1>4, <1>5, <1>6

LEMMA PowerLossKeepsStructure ==
  ASSUME Structure, PowerLoss PROVE Structure'
<1>1. flash' \in [Sectors -> Line]
  <2>1. PICK torn \in Line, s \in Sectors :
          flash' = CASE chip = "busy" -> [flash EXCEPT ![s] = torn]
                     [] chip = "ready" /\ pc \in {"erase", "program"} ->
                          [flash EXCEPT ![cacheSector] = torn]
                     [] chip = "ready" /\ pc = "raw" ->
                          [flash EXCEPT ![SectorOf(req.addr)][OffOf(req.addr)] = torn[0]]
                     [] OTHER -> flash
    BY DEF PowerLoss
  <2>2. CASE chip = "busy"
    BY <2>1, <2>2 DEF Structure, TypeOK
  <2>3. CASE chip = "ready" /\ pc \in {"erase", "program"}
    BY <2>1, <2>3 DEF Structure, TypeOK
  <2>4. CASE chip = "ready" /\ pc = "raw"
    <3>1. SectorOf(req.addr) \in Sectors /\ OffOf(req.addr) \in Idx
      BY <2>4, FirstBlock DEF Structure
    <3>2. torn[0] \in Cell
      BY GeometryAssumption DEF Line, Idx
    <3>3. [flash[SectorOf(req.addr)] EXCEPT ![OffOf(req.addr)] = torn[0]] \in Line
      BY <3>1, <3>2 DEF Line, Structure, TypeOK
    <3>4. flash' = [flash EXCEPT ![SectorOf(req.addr)][OffOf(req.addr)] = torn[0]]
      BY <2>1, <2>4
    <3> QED BY <3>1, <3>3, <3>4 DEF Structure, TypeOK
  <2>5. CASE chip = "ready" /\ pc \notin {"erase", "program", "raw"}
    BY <2>1, <2>5 DEF Structure, TypeOK
  <2> QED BY <2>2, <2>3, <2>4, <2>5 DEF Structure, TypeOK
<1>2. Cardinality({}) = 0 /\ 0 \in Sectors
  BY FS_EmptySet, GeometryAssumption DEF Sectors
<1>3. NoRequest \in [addr : Nat, data : Seq(Cell), raw : BOOLEAN]
  BY DEF NoRequest
<1>4. TypeOK'
  BY <1>1, <1>2, <1>3 DEF PowerLoss, TypeOK
<1> QED BY <1>4 DEF PowerLoss, Structure

LEMMA PowerOnKeepsStructure ==
  ASSUME Structure, PowerOn PROVE Structure'
<1>1. UNCHANGED <<flash, chip, opened, openCnt, cacheSector, cacheBuf, dirty, hnd, timer,
                  why, req, reg, spent>> /\ pc = "off" /\ pc' = "idle"
  BY DEF PowerOn, cacheVars, timerVars
<1>2. InRegion(req)' = InRegion(req)
  BY <1>1 DEF InRegion, Fits
<1>3. TypeOK'
  BY <1>1 DEF Structure, TypeOK
<1> QED BY <1>1, <1>2, <1>3 DEF Structure

LEMMA StructureStep == Structure /\ [Next]_vars => Structure'
<1> SUFFICES ASSUME Structure, [Next]_vars PROVE Structure'
  OBVIOUS
<1>1. ASSUME NEW p \in Parts, Open(p) PROVE Structure'
  BY <1>1, OpenKeepsStructure
<1>2. ASSUME NEW p \in Parts, Close(p) PROVE Structure'
  BY <1>2, CloseKeepsStructure
<1>3. CASE WriteAny
  BY <1>3, WriteKeepsStructure
<1>4. CASE Fill
  BY <1>4, FillKeepsStructure
<1>5. CASE Erase
  BY <1>5, EraseKeepsStructure
<1>6. CASE Program
  BY <1>6, ProgramKeepsStructure
<1>7. CASE ProgramRaw
  BY <1>7, ProgramRawKeepsStructure
<1>8. CASE EraseAny
  BY <1>8, EraseIoctlKeepsStructure DEF EraseAny
<1>9. CASE TimerExpires \/ TimerCallback \/ ChipReady
  BY <1>9, TimerKeepsStructure
<1>10. CASE PowerLoss
  BY <1>10, PowerLossKeepsStructure
<1>12. CASE PowerOn
  BY <1>12, PowerOnKeepsStructure
<1>11. CASE UNCHANGED vars
  <2>1. InRegion(req)' = InRegion(req)
    BY <1>11 DEF vars, InRegion, Fits
  <2>2. TypeOK'
    BY <1>11 DEF vars, Structure, TypeOK
  <2> QED BY <1>11, <2>1, <2>2 DEF vars, Structure
<1> QED BY <1>1, <1>2, <1>3, <1>4, <1>5, <1>6, <1>7, <1>8, <1>9, <1>10, <1>11, <1>12 DEF Next

THEOREM StructureAlways == Spec => []Structure
<1> QED BY StructureInit, StructureStep, PTL DEF Spec

\* Type correctness, including that open_cnt counts the open partitions.
THEOREM TypeCorrect == Spec => []TypeOK
<1>1. Structure => TypeOK
  BY DEF Structure
<1> QED BY <1>1, StructureAlways, PTL

-----------------------------------------------------------------------------
(* The line and the chip, for aligned partitions and a healthy chip.       *)

LEMMA SameSectorDistance ==
  ASSUME NEW a \in Nat, NEW b \in Nat, SectorOf(a) = SectorOf(b)
  PROVE  b - a = OffOf(b) - OffOf(a)
<1>1. /\ SectorOf(a) \in Nat /\ OffOf(a) \in Idx /\ OffOf(b) \in Idx
      /\ a = SectorLen * SectorOf(a) + OffOf(a)
      /\ b = SectorLen * SectorOf(a) + OffOf(b)
  BY DivMod
<1>2. SectorLen * SectorOf(a) \in Nat /\ OffOf(a) \in Nat /\ OffOf(b) \in Nat
  BY <1>1, GeometryAssumption DEF Idx
<1> QED BY <1>1, <1>2

LEMMA HealthyCommand ==
  ASSUME Healthy, chip = "ready", NEW effect, Command(effect)
  PROVE  flash' = effect /\ chip' = "ready" /\ reg' = 0
  BY HealthyWait DEF Command

\* A sector belongs to the cached partitions as a whole or not at all.
LEMMA WholeSectorCached ==
  ASSUME Aligned, NEW b \in CachedBlocks, NEW c \in Blocks, SectorOf(c) = SectorOf(b)
  PROVE  c \in CachedBlocks
<1>1. PICK p \in CachedParts : b \in Region[p]
  BY DEF CachedBlocks
<1> QED BY <1>1, PartAssumption DEF Aligned, CachedBlocks

LEMMA RawSectorNotCached ==
  ASSUME Aligned, NEW p \in Parts \ CachedParts, NEW b \in Region[p],
         NEW c \in CachedBlocks
  PROVE  SectorOf(b) # SectorOf(c)
<1>1. PICK q \in CachedParts : c \in Region[q]
  BY DEF CachedBlocks
<1>2. c \in Blocks /\ q \in Parts /\ p # q
  BY <1>1, PartAssumption
<1>3. SUFFICES ASSUME SectorOf(c) = SectorOf(b) PROVE FALSE
  OBVIOUS
<1>4. c \in Region[p]
  BY <1>2, <1>3 DEF Aligned
<1> QED BY <1>1, <1>2, <1>4 DEF Aligned

\* The first block of a cached request is a cached block; the sector of the
\* first block of a raw request is not the line's if the line is in use.
LEMMA FirstBlockOwner ==
  ASSUME Structure, Aligned, req # NoRequest
  PROVE  /\ ~req.raw => req.addr \in CachedBlocks
         /\ req.raw => \A c \in CachedBlocks : SectorOf(req.addr) # SectorOf(c)
<1>1. PICK p \in opened : /\ req.raw = (p \notin CachedParts)
                          /\ Fits(p, req.addr, Len(req.data))
  BY DEF Structure, InRegion
<1>2. p \in Parts /\ req.addr \in Nat /\ Len(req.data) \in Nat \ {0}
  BY DEF Structure, TypeOK
<1>3. req.addr + 0 \in Region[p]
  BY <1>1, <1>2 DEF Fits
<1>4. req.addr \in Region[p]
  BY <1>2, <1>3
<1>5. CASE p \in CachedParts
  BY <1>1, <1>4, <1>5 DEF CachedBlocks
<1>6. CASE p \notin CachedParts
  BY <1>1, <1>2, <1>4, <1>6, RawSectorNotCached
<1> QED BY <1>5, <1>6

LEMMA CoherentInit == Init => Coherent
  BY DEF Init, Coherent, NoBuf

LEMMA CoherentStep ==
  ASSUME Healthy, Aligned, Structure, Structure', Coherent, [Next]_vars
  PROVE  Coherent'
<1> USE DEF Coherent
<1>1. ASSUME NEW p \in Parts, Open(p) PROVE Coherent'
  <2>1. openCnt = 0 <=> opened = {}
    BY OpenCount DEF Structure, TypeOK
  <2>2. CASE openCnt = 0
    <3>1. cacheSector' = 0 /\ cacheBuf' = flash[0] /\ ~dirty'
      BY <1>1, <2>1, <2>2 DEF Open, Loaded, Structure
    <3> QED BY <1>1, <3>1 DEF Open
  <2>3. CASE openCnt # 0
    BY <1>1, <2>3 DEF Open, LineIsCached
  <2> QED BY <2>2, <2>3
<1>2. ASSUME NEW p \in Parts, Close(p) PROVE Coherent'
  <2>1. UNCHANGED <<flash, chip, cacheSector, reg>> /\ pc = "idle"
        /\ LineIsCached' = LineIsCached
    BY <1>2 DEF Close, LineIsCached
  <2>2. CASE openCnt' = 0 /\ dirty
    <3>1. pc' = "erase" /\ dirty' = FALSE
      BY <1>2, <2>2 DEF Close
    <3> QED BY <2>1, <2>2, <3>1
  <2>3. CASE openCnt' = 0 /\ ~dirty
    <3>1. pc' = "idle" /\ dirty' = FALSE /\ cacheBuf' = NoBuf
      BY <1>2, <2>3 DEF Close
    <3> QED BY <2>1, <2>3, <3>1
  <2>4. CASE openCnt' # 0
    <3>1. pc' = "idle" /\ cacheBuf' = cacheBuf
      BY <1>2, <2>4 DEF Close
    <3>2. openCnt' \in Nat /\ openCnt' > 0
      BY <2>4, OpenCount DEF Structure, TypeOK
    <3>3. dirty' = dirty
      BY <1>2, <3>2 DEF Close
    <3> QED BY <2>1, <3>1, <3>3
  <2> QED BY <2>2, <2>3, <2>4
<1>3. CASE WriteAny
  <2>0. \E p, a, data : Write(p, a, data)
    BY <1>3 DEF WriteAny
  <2>1. PICK p, a, data : Write(p, a, data)
    BY <2>0
  <2>2. UNCHANGED <<flash, chip, cacheSector, cacheBuf, reg>> /\ pc = "idle"
        /\ LineIsCached' = LineIsCached /\ req'.addr = a
    BY <2>1 DEF Write, LineIsCached
  <2>3. \/ pc' = "raw" /\ dirty' = dirty
        \/ pc' = "erase" /\ dirty /\ dirty' = FALSE
        \/ pc' = "fill" /\ dirty' = dirty /\ ~(dirty /\ SectorOf(a) # cacheSector)
    BY <2>1 DEF Write
  <2> QED BY <2>2, <2>3
<1>4. CASE Fill
  <2>1. req.addr \in CachedBlocks
    BY <1>4, FirstBlockOwner DEF Fill, Structure
  <2>2. LineIsCached'
    BY <1>4, <2>1 DEF Fill, LineIsCached
  <2>3. UNCHANGED <<flash, chip, reg>>
    BY <1>4 DEF Fill
  <2>4. (pc' = "idle" /\ dirty' = TRUE) \/ pc' = "erase"
    BY <1>4 DEF Fill, Idle
  <2> QED BY <2>2, <2>3, <2>4
<1>5. CASE Erase
  <2>1. flash' = ErasedAt(cacheSector) /\ chip' = "ready" /\ reg' = 0
    BY <1>5, HealthyCommand DEF Erase
  <2>2. pc' = "program" /\ UNCHANGED <<cacheSector, cacheBuf, dirty>> /\ pc = "erase"
        /\ LineIsCached' = LineIsCached
    BY <1>5, <2>1 DEF Erase, LineIsCached
  <2>3. flash'[cacheSector] = [i \in Idx |-> Erased]
    BY <2>1 DEF ErasedAt, Structure, TypeOK
  <2> QED BY <2>1, <2>2, <2>3
<1>6. CASE Program
  <2>1. flash' = ProgrammedAt(cacheSector) /\ chip' = "ready" /\ reg' = 0
    BY <1>6, HealthyCommand DEF Program
  <2>2. pc' \in {"fill", "idle"} /\ UNCHANGED <<cacheSector, dirty>> /\ pc = "program"
        /\ dirty = FALSE /\ cacheBuf' \in {NoBuf, cacheBuf} /\ cacheBuf # NoBuf
    BY <1>6 DEF Program, End, Idle, Structure, TypeOK
  <2>3. flash'[cacheSector] = cacheBuf
    <3>1. flash'[cacheSector] = [i \in Idx |-> flash[cacheSector][i] \cap cacheBuf[i]]
      BY <2>1 DEF ProgrammedAt, Structure, TypeOK
    <3>2. \A i \in Idx : flash[cacheSector][i] = Bits
      BY <2>2 DEF Erased
    <3>3. cacheBuf \in [Idx -> SUBSET Bits]
      BY <2>2 DEF Structure, TypeOK, Line, Cell
    <3>4. \A i \in Idx : flash[cacheSector][i] \cap cacheBuf[i] = cacheBuf[i]
      BY <3>2, <3>3
    <3> QED BY <3>1, <3>3, <3>4
  <2> QED BY <2>1, <2>2, <2>3
<1>7. CASE ProgramRaw
  <2> DEFINE s == SectorOf(req.addr)
             i == OffOf(req.addr)
             effect == [flash EXCEPT ![s][i] = @ \cap req.data[1]]
  <2>1. flash' = effect /\ chip' = "ready" /\ reg' = 0
    <3>1. Command(effect)
      BY <1>7 DEF ProgramRaw
    <3> HIDE DEF effect
    <3> QED BY <3>1, HealthyCommand
  <2>2. pc = "raw" /\ req # NoRequest /\ req.raw /\ pc' \in {"idle", "raw"}
        /\ UNCHANGED <<cacheSector, cacheBuf, dirty>> /\ LineIsCached' = LineIsCached
    BY <1>7 DEF ProgramRaw, Idle, Structure, LineIsCached
  <2>3. LineIsCached => cacheSector # s
    BY <2>2, FirstBlockOwner DEF LineIsCached
  <2>4. LineIsCached => flash'[cacheSector] = flash[cacheSector]
    BY <2>1, <2>3 DEF Structure, TypeOK
  <2> QED BY <2>1, <2>2, <2>4
<1>8. CASE EraseAny
  <2>1. PICK p \in Parts \ CachedParts : \E b \in Region[p] : EraseIoctl(p, b)
    BY <1>8 DEF EraseAny
  <2>2. PICK b \in Region[p] : EraseIoctl(p, b)
    BY <2>1
  <2>3. flash' = ErasedAt(SectorOf(b)) /\ chip' = "ready" /\ reg' = 0
    BY <2>2, HealthyCommand DEF EraseIoctl
  <2>4. UNCHANGED <<cacheSector, cacheBuf, dirty, pc, req>> /\ pc = "idle"
        /\ LineIsCached' = LineIsCached
    BY <2>2 DEF EraseIoctl, LineIsCached
  <2>5. LineIsCached => cacheSector # SectorOf(b)
    BY RawSectorNotCached DEF LineIsCached
  <2>6. LineIsCached => flash'[cacheSector] = flash[cacheSector]
    BY <2>3, <2>5 DEF ErasedAt, Structure, TypeOK
  <2> QED BY <2>3, <2>4, <2>6
<1>9. CASE TimerExpires \/ ChipReady
  BY <1>9 DEF TimerExpires, ChipReady, cacheVars, LineIsCached
<1>10. CASE TimerCallback
  <2>1. UNCHANGED <<flash, chip, cacheSector, cacheBuf, reg>> /\ pc = "idle"
        /\ LineIsCached' = LineIsCached
    BY <1>10 DEF TimerCallback, LineIsCached
  <2>2. \/ dirty /\ dirty' = FALSE /\ pc' = "erase"
        \/ ~dirty /\ UNCHANGED <<dirty, pc>>
    BY <1>10 DEF TimerCallback
  <2> QED BY <2>1, <2>2
<1>11. CASE PowerLoss
  BY <1>11 DEF PowerLoss
<1>13. CASE PowerOn
  BY <1>13 DEF PowerOn, cacheVars, LineIsCached
<1>12. CASE UNCHANGED vars
  BY <1>12 DEF vars, LineIsCached
<1> QED BY <1>1, <1>2, <1>3, <1>4, <1>5, <1>6, <1>7, <1>8, <1>9, <1>10, <1>11, <1>12, <1>13 DEF Next

THEOREM CoherentAlways ==
  ASSUME Healthy, Aligned PROVE Spec => [](Structure /\ Coherent)
<1>1. Init => Structure /\ Coherent
  BY StructureInit, CoherentInit
<1>2. Structure /\ Coherent /\ [Next]_vars => (Structure /\ Coherent)'
  BY StructureStep, CoherentStep
<1> QED BY <1>1, <1>2, PTL DEF Spec

\* With the line clean and no operation running, the chip holds every block.
THEOREM DurableWhenClean ==
  ASSUME Healthy, Aligned PROVE Spec => []CleanIsDurable
<1>1. ASSUME Structure, Coherent PROVE CleanIsDurable
  <2>1. SUFFICES ASSUME pc = "idle", ~dirty, NEW b \in CachedBlocks
                 PROVE  OnChip(b) = View[b]
    BY DEF CleanIsDurable
  <2>2. b \in Blocks
    BY PartAssumption DEF CachedBlocks
  <2>3. CASE cacheBuf # NoBuf /\ SectorOf(b) = cacheSector
    <3>1. flash[cacheSector] = cacheBuf
      BY <1>1, <2>1, <2>3 DEF Coherent, LineIsCached
    <3> QED BY <2>2, <2>3, <3>1 DEF View, OnChip
  <2>4. CASE ~(cacheBuf # NoBuf /\ SectorOf(b) = cacheSector)
    BY <2>2, <2>4 DEF View
  <2> QED BY <2>3, <2>4
<1>2. Structure /\ Coherent => CleanIsDurable
  BY <1>1
<1> QED BY <1>2, CoherentAlways, PTL

-----------------------------------------------------------------------------
(* The driver implements the flat disk.                                    *)

LEMMA ViewType == Structure => View \in [Blocks -> Cell]
<1> SUFFICES ASSUME Structure, NEW b \in Blocks PROVE View[b] \in Cell
  BY DEF View
<1>1. SectorOf(b) \in Sectors /\ OffOf(b) \in Idx
  BY BlockInSector
<1>2. flash[SectorOf(b)][OffOf(b)] \in Cell
  BY <1>1 DEF Structure, TypeOK, Line
<1>3. cacheBuf # NoBuf => cacheBuf[OffOf(b)] \in Cell
  BY <1>1 DEF Structure, TypeOK, Line
<1> QED BY <1>2, <1>3 DEF View, OnChip

\* The view of a block whose line, if it has one, is clean.
LEMMA ViewIsChip ==
  ASSUME Structure, Coherent, NEW b \in Blocks,
         (~dirty /\ pc \notin {"erase", "program"}) \/ SectorOf(b) # cacheSector
                                                  \/ b \notin CachedBlocks
  PROVE  View[b] = OnChip(b)
<1>1. CASE cacheBuf # NoBuf /\ SectorOf(b) = cacheSector /\ b \in CachedBlocks
  <2>1. flash[cacheSector] = cacheBuf
    BY <1>1 DEF Coherent, LineIsCached
  <2> QED BY <1>1, <2>1 DEF View, OnChip
<1>2. CASE ~(cacheBuf # NoBuf /\ SectorOf(b) = cacheSector /\ b \in CachedBlocks)
  BY <1>2 DEF View
<1> QED BY <1>1, <1>2

LEMMA FillStores ==
  ASSUME Structure, Coherent, Aligned, Fill
  PROVE  Disk!Store
<1> DEFINE n == ChunkLen(req)
           s == SectorOf(req.addr)
           o == OffOf(req.addr)
<1>1. /\ pc = "fill" /\ req # NoRequest /\ req.data # << >> /\ ~req.raw
      /\ cacheBuf # NoBuf /\ chip = "ready"
      /\ req \in [addr : Nat, data : Seq(Cell), raw : BOOLEAN]
      /\ InRegion(req)
  BY DEF Fill, Structure, Coherent, TypeOK
<1>2. /\ n \in 1 .. Len(req.data) /\ Len(req.data) \in Nat /\ o + n <= SectorLen
      /\ req.addr \in Nat /\ o \in Nat /\ n \in Nat
  <2>1. Len(req.data) \in Nat /\ req.addr \in Nat
    BY <1>1
  <2>2. n \in 1 .. Len(req.data) /\ o + n <= SectorLen
    BY <1>1, ChunkFacts
  <2>3. o \in Idx
    BY <2>1, DivMod
  <2> QED BY <2>1, <2>2, <2>3, GeometryAssumption DEF Idx
<1>3. PICK line \in IF s = cacheSector THEN {cacheBuf} ELSE Loaded(s) :
        cacheBuf' = Merged(line, req, n)
  BY DEF Fill
<1>4. cacheSector' = s /\ flash' = flash /\ cacheBuf' # NoBuf /\ req' = Rest(req, n)
  <2>1. NoBuf # Merged(line, req, n)
    BY GeometryAssumption DEF NoBuf, Merged, Idx
  <2> QED BY <1>3, <2>1 DEF Fill
<1>5. req.addr \in CachedBlocks /\ CachedBlocks \subseteq Blocks
  BY <1>1, FirstBlockOwner, PartAssumption DEF CachedBlocks
<1>6. ASSUME NEW b \in Blocks
      PROVE  View'[b] = IF b >= req.addr /\ b < req.addr + n
                        THEN req.data[b - req.addr + 1] ELSE View[b]
  <2>1. b \in Nat /\ OffOf(b) \in Idx /\ SectorOf(b) \in Sectors
    BY BlockInSector
  <2>2. (b >= req.addr /\ b < req.addr + n) <=>
        (SectorOf(b) = s /\ OffOf(b) >= o /\ OffOf(b) < o + n)
    BY <1>2, <2>1, ChunkRange
  <2>3. CASE SectorOf(b) = s
    <3>1. b \in CachedBlocks
      BY <1>5, <2>3, WholeSectorCached
    <3>2. View'[b] = Merged(line, req, n)[OffOf(b)]
      BY <1>3, <1>4, <2>3, <3>1 DEF View
    <3>3. line[OffOf(b)] = View[b]
      <4>1. CASE s = cacheSector
        BY <1>1, <1>3, <2>3, <3>1, <4>1 DEF View
      <4>2. CASE s # cacheSector
        BY <1>1, <1>3, <2>3, <4>2 DEF View, OnChip, Loaded
      <4> QED BY <4>1, <4>2
    <3>4. b - req.addr = OffOf(b) - o
      BY <1>2, <2>1, <2>3, SameSectorDistance
    <3>5. Merged(line, req, n)[OffOf(b)] =
             IF OffOf(b) >= o /\ OffOf(b) < o + n
             THEN req.data[OffOf(b) - o + 1] ELSE line[OffOf(b)]
      BY <2>1 DEF Merged
    <3> QED BY <2>2, <2>3, <3>2, <3>3, <3>4, <3>5
  <2>4. CASE SectorOf(b) # s
    <3>1. View'[b] = OnChip(b)
      BY <1>4, <2>4 DEF View, OnChip
    <3>2. View[b] = OnChip(b)
      <4>1. dirty => s = cacheSector
        BY <1>1 DEF Coherent
      <4>2. (~dirty /\ pc \notin {"erase", "program"}) \/ SectorOf(b) # cacheSector
        BY <1>1, <2>4, <4>1
      <4> QED BY <4>2, ViewIsChip
    <3> QED BY <2>2, <2>4, <3>1, <3>2
  <2> QED BY <2>3, <2>4
<1>7. View' = [b \in Blocks |-> IF b >= req.addr /\ b < req.addr + n
                                THEN req.data[b - req.addr + 1] ELSE View[b]]
  <2>1. View' = [b \in Blocks |-> View'[b]]
    BY DEF View
  <2> HIDE DEF n
  <2> QED BY <1>6, <2>1
<1>8. View' = Disk!Stored(View, req, n)
  BY <1>1, <1>7 DEF Disk!Stored, Disk!Blocks, Blocks
<1>9. req' = Disk!Rest(req, n)
  BY <1>4 DEF Rest, Disk!Rest, NoRequest, Disk!NoRequest
<1> QED BY <1>2, <1>8, <1>9 DEF Disk!Store

LEMMA ProgramRawStores ==
  ASSUME Structure, Coherent, Aligned, Healthy, ProgramRaw
  PROVE  Disk!Store
<1> DEFINE s == SectorOf(req.addr)
           i == OffOf(req.addr)
           effect == [flash EXCEPT ![s][i] = @ \cap req.data[1]]
<1>1. /\ pc = "raw" /\ req # NoRequest /\ req.data # << >> /\ req.raw
      /\ chip = "ready" /\ InRegion(req)
      /\ req \in [addr : Nat, data : Seq(Cell), raw : BOOLEAN]
      /\ UNCHANGED <<cacheSector, cacheBuf>>
  BY DEF ProgramRaw, Structure, Coherent, TypeOK
<1>2. /\ req.addr \in Blocks /\ req.addr \in Nat /\ Len(req.data) \in Nat \ {0}
      /\ s \in Sectors /\ i \in Idx
  BY <1>1, FirstBlock, BlockInSector DEF Structure
<1>3. flash' = effect /\ req' = Rest(req, 1)
  <2>1. Command(effect)
    BY DEF ProgramRaw
  <2>2. flash' = effect /\ reg' = 0
    <3> HIDE DEF effect
    <3> QED BY <1>1, <2>1, HealthyCommand
  <2> QED BY <2>2 DEF ProgramRaw
<1>4. \A c \in CachedBlocks : s # SectorOf(c)
  BY <1>1, FirstBlockOwner
<1>5. ASSUME NEW b \in Blocks
      PROVE  View'[b] = IF b >= req.addr /\ b < req.addr + 1
                        THEN View[b] \cap req.data[b - req.addr + 1] ELSE View[b]
  <2>1. b \in Nat /\ SectorOf(b) \in Sectors /\ OffOf(b) \in Idx
    BY BlockInSector
  <2>2. CASE b = req.addr
    <3>1. b \notin CachedBlocks
      BY <1>4, <2>2
    <3>2. View[b] = flash[s][i] /\ View'[b] = flash'[s][i]
      BY <2>2, <3>1 DEF View, OnChip
    <3>3. flash'[s][i] = flash[s][i] \cap req.data[1]
      <4>1. flash \in [Sectors -> [Idx -> Cell]]
        BY DEF Structure, TypeOK, Line
      <4> QED BY <1>2, <1>3, <4>1
    <3>4. b - req.addr + 1 = 1
      BY <1>2, <2>1, <2>2
    <3> QED BY <1>2, <2>2, <3>2, <3>3, <3>4
  <2>3. CASE b # req.addr
    <3>1. SectorOf(b) # s \/ OffOf(b) # i
      <4>1. SUFFICES ASSUME SectorOf(b) = s, OffOf(b) = i PROVE FALSE
        OBVIOUS
      <4>2. b - req.addr = OffOf(b) - i
        BY <1>2, <2>1, <4>1, SameSectorDistance
      <4>3. i \in Nat
        BY <1>2, GeometryAssumption DEF Idx
      <4>4. b - req.addr = 0
        BY <4>1, <4>2, <4>3
      <4> QED BY <1>2, <2>1, <2>3, <4>4
    <3>2. flash'[SectorOf(b)][OffOf(b)] = flash[SectorOf(b)][OffOf(b)]
      <4>1. flash \in [Sectors -> [Idx -> Cell]]
        BY DEF Structure, TypeOK, Line
      <4>2. CASE SectorOf(b) # s
        BY <1>2, <1>3, <2>1, <4>1, <4>2
      <4>3. CASE SectorOf(b) = s /\ OffOf(b) # i
        BY <1>2, <1>3, <2>1, <4>1, <4>3
      <4> QED BY <3>1, <4>2, <4>3
    <3>3. View'[b] = View[b]
      BY <1>1, <3>2 DEF View, OnChip
    <3>4. ~(b >= req.addr /\ b < req.addr + 1)
      BY <1>2, <2>1, <2>3
    <3> QED BY <3>3, <3>4
  <2> QED BY <2>2, <2>3
<1>6. View' = [b \in Blocks |-> IF b >= req.addr /\ b < req.addr + 1
                  THEN View[b] \cap req.data[b - req.addr + 1] ELSE View[b]]
  <2>1. View' = [b \in Blocks |-> View'[b]]
    BY DEF View
  <2> QED BY <1>5, <2>1
<1>7. View' = Disk!Stored(View, req, 1)
  BY <1>1, <1>6 DEF Disk!Stored, Disk!Blocks, Blocks
<1>8. req' = Disk!Rest(req, 1)
  BY <1>3 DEF Rest, Disk!Rest, NoRequest, Disk!NoRequest
<1> QED BY <1>2, <1>7, <1>8 DEF Disk!Store

LEMMA WriteAccepts ==
  ASSUME Structure, WriteAny
  PROVE  Disk!Accept
<1>0. PICK p \in Parts, n \in 1 .. MaxLen : \E a \in Region[p] :
        Fits(p, a, n) /\ \E data \in [1 .. n -> Cell] : Write(p, a, data)
  BY DEF WriteAny
<1>1. PICK a \in Region[p] :
        Fits(p, a, n) /\ \E data \in [1 .. n -> Cell] : Write(p, a, data)
  BY <1>0
<1>2. PICK data \in [1 .. n -> Cell] : Write(p, a, data)
  BY <1>1
<1>3. n \in Nat \ {0} /\ a \in Blocks /\ a \in Nat /\ Region[p] \subseteq Blocks
  BY PartAssumption, GeometryAssumption, BlockInSector
<1>4. a + (n - 1) \in Blocks
  <2>1. n - 1 \in 0 .. n - 1
    BY <1>3
  <2> QED BY <1>1, <1>3, <2>1 DEF Fits
<1>5. n \in 1 .. NumSectors * SectorLen
  <2>1. NumSectors * SectorLen \in Nat
    BY GeometryAssumption
  <2>2. a + (n - 1) <= NumSectors * SectorLen - 1
    BY <1>4, <2>1 DEF Blocks
  <2> QED BY <1>3, <2>1, <2>2
<1>6. View' = View /\ req = NoRequest
  BY <1>2 DEF Write, View, OnChip, Structure
<1>7. req' = [addr |-> a, data |-> data, raw |-> (p \notin CachedParts)]
      /\ (p \notin CachedParts) \in BOOLEAN
  BY <1>2 DEF Write
<1>8. a \in Disk!Blocks /\ data \in [1 .. n -> Disk!Cell]
  BY <1>2, <1>3 DEF Disk!Blocks, Blocks, Disk!Cell, Cell
<1> QED BY <1>5, <1>6, <1>7, <1>8 DEF Disk!Accept, Disk!NoRequest, NoRequest

LEMMA EraseIoctlErases ==
  ASSUME Structure, Coherent, Aligned, Healthy,
         NEW p \in Parts \ CachedParts, NEW b \in Region[p], EraseIoctl(p, b)
  PROVE  Disk!EraseSector
<1>1. b \in Blocks /\ SectorOf(b) \in Sectors
  BY PartAssumption, BlockInSector
<1>2. flash' = ErasedAt(SectorOf(b)) /\ UNCHANGED <<cacheSector, cacheBuf, req>>
  BY HealthyCommand DEF EraseIoctl, Coherent
<1>3. ASSUME NEW c \in Blocks
      PROVE  View'[c] = IF SectorOf(c) = SectorOf(b) THEN Erased ELSE View[c]
  <2>1. SectorOf(c) \in Sectors /\ OffOf(c) \in Idx
    BY BlockInSector
  <2>2. CASE SectorOf(c) = SectorOf(b)
    <3>1. c \notin CachedBlocks
      BY <2>2, RawSectorNotCached
    <3>2. flash'[SectorOf(c)][OffOf(c)] = Erased
      BY <1>1, <1>2, <2>1, <2>2 DEF ErasedAt, Structure, TypeOK
    <3> QED BY <2>2, <3>1, <3>2 DEF View, OnChip
  <2>3. CASE SectorOf(c) # SectorOf(b)
    <3>1. flash'[SectorOf(c)] = flash[SectorOf(c)]
      BY <1>1, <1>2, <2>1, <2>3 DEF ErasedAt, Structure, TypeOK
    <3> QED BY <1>2, <2>3, <3>1 DEF View, OnChip
  <2> QED BY <2>2, <2>3
<1>4. View' = [c \in Blocks |-> IF SectorOf(c) = SectorOf(b) THEN Erased ELSE View[c]]
  <2>1. View' = [c \in Blocks |-> View'[c]]
    BY DEF View
  <2> QED BY <1>3, <2>1
<1>5. SectorOf(b) \in Disk!Sectors
  BY <1>1 DEF Disk!Sectors, Sectors
<1> QED BY <1>2, <1>4, <1>5
        DEF Disk!EraseSector, Disk!Blocks, Blocks, Disk!SectorOf, SectorOf,
            Disk!Erased, Erased

\* The unsafe sectors are those of the line and of a raw request.
LEMMA UnsafeType ==
  ASSUME Structure
  PROVE  \E s, t \in Disk!Sectors : Unsafe \subseteq {s, t}
<1> DEFINE t == IF pc = "raw" THEN SectorOf(req.addr) ELSE cacheSector
<1>1. cacheSector \in Sectors /\ t \in Sectors
  BY FirstBlock DEF Structure, TypeOK
<1>2. Unsafe \subseteq {cacheSector, t}
  BY DEF Unsafe
<1> HIDE DEF t
<1> QED BY <1>1, <1>2 DEF Disk!Sectors, Sectors

\* The sector of a request's first block is one of those it reaches.
LEMMA FirstSector ==
  ASSUME NEW r, r.addr \in Nat, Len(r.data) \in Nat \ {0}
  PROVE  SectorOf(r.addr) \in Disk!SectorsOf(r)
<1>1. 0 \in 0 .. Len(r.data) - 1 /\ r.addr + 0 = r.addr
  OBVIOUS
<1> QED BY <1>1 DEF Disk!SectorsOf, Disk!SectorOf, SectorOf

\* A sector gets unsafe only by a request that reaches it.
LEMMA RiskIsRequested ==
  ASSUME Structure, Structure',
         Unsafe' \subseteq Unsafe
           \cup (IF req # NoRequest THEN {SectorOf(req.addr)} ELSE {})
           \cup (IF req' # NoRequest THEN {SectorOf(req'.addr)} ELSE {})
  PROVE  Disk!Risk
<1>1. \E s, t \in Disk!Sectors : Unsafe' \subseteq {s, t}
  <2>1. Structure => \E s, t \in Disk!Sectors : Unsafe \subseteq {s, t}
    BY UnsafeType
  <2>2. (\E s, t \in Disk!Sectors : Unsafe \subseteq {s, t})'
    BY <2>1, UnsafeType, PTL
  <2> QED BY <2>2 DEF Disk!Sectors
<1>2. req # NoRequest => SectorOf(req.addr) \in Disk!SectorsOf(req)
  <2>1. SUFFICES ASSUME req # NoRequest PROVE SectorOf(req.addr) \in Disk!SectorsOf(req)
    OBVIOUS
  <2>2. req.addr \in Nat /\ Len(req.data) \in Nat \ {0}
    BY <2>1 DEF Structure, TypeOK
  <2> QED BY <2>2, FirstSector
<1>3. req' # NoRequest => SectorOf(req'.addr) \in Disk!SectorsOf(req')
  <2>1. SUFFICES ASSUME req' # NoRequest PROVE SectorOf(req'.addr) \in Disk!SectorsOf(req')
    OBVIOUS
  <2>2. req'.addr \in Nat /\ Len(req'.data) \in Nat \ {0}
    BY <2>1 DEF Structure, TypeOK
  <2> QED BY <2>2, FirstSector
<1> QED BY <1>1, <1>2, <1>3 DEF Disk!Risk

LEMMA PowerLossIsPowerCut ==
  ASSUME Structure, Structure', Coherent, PowerLoss
  PROVE  Disk!PowerCut
<1>1. /\ cacheBuf' = NoBuf /\ req' = NoRequest /\ pc # "off" /\ pc' = "off"
      /\ dirty' = FALSE
  BY DEF PowerLoss
<1>2. Unsafe' = {}
  BY <1>1 DEF Unsafe
<1>3. ASSUME NEW b \in Blocks, SectorOf(b) \notin Unsafe
      PROVE  View'[b] = View[b]
  <2>1. SectorOf(b) \in Sectors /\ OffOf(b) \in Idx
    BY BlockInSector
  <2>2. View'[b] = flash'[SectorOf(b)][OffOf(b)]
    BY <1>1 DEF View, OnChip
  <2>3. View[b] = flash[SectorOf(b)][OffOf(b)]
    <3>1. (~dirty /\ pc \notin {"erase", "program"}) \/ SectorOf(b) # cacheSector
      BY <1>3 DEF Unsafe
    <3> QED BY <3>1, ViewIsChip DEF OnChip
  <2>4. flash'[SectorOf(b)] = flash[SectorOf(b)]
    <3>1. PICK torn \in Line :
            flash' = CASE pc \in {"erase", "program"} -> [flash EXCEPT ![cacheSector] = torn]
                       [] pc = "raw" -> [flash EXCEPT ![SectorOf(req.addr)][OffOf(req.addr)] = torn[0]]
                       [] OTHER -> flash
      BY DEF PowerLoss, Coherent
    <3>2. CASE pc \in {"erase", "program"}
      BY <1>3, <2>1, <3>1, <3>2 DEF Structure, TypeOK, Unsafe
    <3>3. CASE pc = "raw"
      BY <1>3, <2>1, <3>1, <3>3 DEF Structure, TypeOK, Unsafe
    <3>4. CASE pc \notin {"erase", "program", "raw"}
      BY <3>1, <3>4
    <3> QED BY <3>2, <3>3, <3>4
  <2> QED BY <2>2, <2>3, <2>4
<1>4. View' \in [Blocks -> Cell]
  <2>1. (View \in [Blocks -> Cell])'
    BY ViewType, PTL
  <2> QED BY <2>1 DEF Blocks, Cell
<1>5. \A b \in Disk!Blocks : Disk!SectorOf(b) \notin Unsafe => View'[b] = View[b]
  BY <1>3 DEF Disk!Blocks, Blocks, Disk!SectorOf, SectorOf
<1> QED BY <1>1, <1>2, <1>4, <1>5
        DEF Disk!PowerCut, Disk!Blocks, Blocks, Disk!Cell, Cell, Disk!NoRequest, NoRequest

LEMMA PowerOnIsPowerOn ==
  ASSUME Structure, PowerOn
  PROVE  Disk!PowerOn
<1>1. UNCHANGED <<flash, cacheSector, cacheBuf, dirty, req>> /\ pc = "off" /\ pc' = "idle"
  BY DEF PowerOn, cacheVars
<1>2. View' = View /\ Unsafe' = Unsafe
  BY <1>1 DEF View, OnChip, Unsafe
<1> QED BY <1>1, <1>2 DEF Disk!PowerOn

\* A step with the power on is no power cut, and adds to what is unsafe only
\* the sector its request has got to.
LEMMA PoweredSteps ==
  ASSUME Structure, Structure', Coherent, Healthy,
         \/ \E p \in Parts : Open(p) \/ Close(p)
         \/ WriteAny \/ Fill \/ Erase \/ Program \/ ProgramRaw \/ EraseAny
         \/ TimerExpires \/ TimerCallback \/ ChipReady
  PROVE  /\ (pc # "off") = (pc' # "off")
         /\ pc # "off" => Disk!Risk
<1> DEFINE Stays == (pc # "off") = (pc' # "off")
           Adds == Unsafe' \subseteq Unsafe
                     \cup (IF req # NoRequest THEN {SectorOf(req.addr)} ELSE {})
                     \cup (IF req' # NoRequest THEN {SectorOf(req'.addr)} ELSE {})
<1> SUFFICES Stays /\ Adds
  BY RiskIsRequested
<1>1. ASSUME NEW p \in Parts, Open(p) PROVE Stays /\ Adds
  <2>1. openCnt = 0 => ~dirty
    BY OpenCount DEF Structure, TypeOK
  <2>2. UNCHANGED <<dirty, pc, req>> /\ pc = "idle" /\ (openCnt # 0 => cacheSector' = cacheSector)
    BY <1>1 DEF Open
  <2> QED BY <2>1, <2>2 DEF Unsafe
<1>2. ASSUME NEW p \in Parts, Close(p) PROVE Stays /\ Adds
  <2>1. pc = "idle" /\ pc' \in {"idle", "erase"} /\ cacheSector' = cacheSector
        /\ (pc' = "erase" => dirty) /\ (dirty' => dirty)
    BY <1>2 DEF Close
  <2> QED BY <2>1 DEF Unsafe
<1>3. CASE WriteAny
  <2>0. \E p, a, data : Write(p, a, data)
    BY <1>3 DEF WriteAny
  <2>1. PICK p, a, data : Write(p, a, data)
    BY <2>0
  <2>2. pc = "idle" /\ pc' \in {"raw", "erase", "fill"} /\ cacheSector' = cacheSector
        /\ (pc' = "erase" => dirty) /\ (dirty' => dirty)
    BY <2>1 DEF Write
  <2>3. pc' = "raw" => req' # NoRequest
    BY DEF Structure
  <2> QED BY <2>2, <2>3 DEF Unsafe
<1>4. CASE Fill
  <2>1. pc = "fill" /\ pc' \in {"idle", "erase"} /\ cacheSector' = SectorOf(req.addr)
        /\ req # NoRequest
    BY <1>4 DEF Fill, Idle, Structure
  <2> QED BY <2>1 DEF Unsafe
<1>5. CASE Erase
  <2>1. pc = "erase" /\ pc' \in {"program", "idle"} /\ cacheSector' = cacheSector /\ dirty' = dirty
    BY <1>5 DEF Erase, End, Idle
  <2> QED BY <2>1 DEF Unsafe
<1>6. CASE Program
  <2>1. pc = "program" /\ pc' \in {"fill", "idle"} /\ cacheSector' = cacheSector /\ dirty' = dirty
    BY <1>6 DEF Program, End, Idle
  <2> QED BY <2>1 DEF Unsafe
<1>7. CASE ProgramRaw
  <2>1. pc = "raw" /\ pc' \in {"raw", "idle"} /\ cacheSector' = cacheSector /\ dirty' = dirty
    BY <1>7 DEF ProgramRaw, Idle
  <2>2. pc' = "raw" => req' # NoRequest
    BY DEF Structure
  <2> QED BY <2>1, <2>2 DEF Unsafe
<1>8. CASE EraseAny
  <2>1. UNCHANGED <<pc, dirty, cacheSector, req>>
    BY <1>8 DEF EraseAny, EraseIoctl
  <2> QED BY <2>1 DEF Unsafe
<1>9. CASE TimerExpires \/ ChipReady
  <2>1. UNCHANGED <<pc, dirty, cacheSector, req>>
    BY <1>9 DEF TimerExpires, ChipReady, cacheVars
  <2> QED BY <2>1 DEF Unsafe
<1>10. CASE TimerCallback
  <2>1. pc = "idle" /\ pc' \in {"idle", "erase"} /\ UNCHANGED <<cacheSector, req>>
        /\ (pc' = "erase" => dirty) /\ (dirty' => dirty)
    BY <1>10 DEF TimerCallback
  <2> QED BY <2>1 DEF Unsafe
<1> QED BY <1>1, <1>2, <1>3, <1>4, <1>5, <1>6, <1>7, <1>8, <1>9, <1>10

\* The steps the flat disk does not see.
LEMMA HiddenSteps ==
  ASSUME Structure, Coherent, Coherent', Aligned, Healthy,
         \/ \E p \in Parts : Open(p) \/ Close(p)
         \/ Erase \/ Program \/ TimerExpires \/ TimerCallback \/ ChipReady
  PROVE  View' = View /\ req' = req
<1>1. ASSUME NEW p \in Parts, Open(p) PROVE View' = View /\ req' = req
  <2>1. openCnt = 0 <=> opened = {}
    BY OpenCount DEF Structure, TypeOK
  <2>2. UNCHANGED <<flash, req>>
    BY <1>1 DEF Open
  <2>3. CASE openCnt # 0
    BY <1>1, <2>2, <2>3 DEF Open, View, OnChip
  <2>4. CASE openCnt = 0
    <3>1. cacheBuf = NoBuf /\ cacheSector' = 0 /\ cacheBuf' = flash[0]
      BY <1>1, <2>1, <2>4 DEF Open, Loaded, Structure, Coherent
    <3>2. \A b \in Blocks : View'[b] = View[b]
      BY <2>2, <3>1 DEF View, OnChip
    <3>3. View' = [b \in Blocks |-> View'[b]] /\ View = [b \in Blocks |-> View[b]]
      BY DEF View
    <3> QED BY <2>2, <3>2, <3>3
  <2> QED BY <2>3, <2>4
<1>2. ASSUME NEW p \in Parts, Close(p) PROVE View' = View /\ req' = req
  <2>1. UNCHANGED <<flash, cacheSector, req>> /\ pc = "idle"
    BY <1>2 DEF Close
  <2>2. CASE cacheBuf' = cacheBuf
    BY <2>1, <2>2 DEF View, OnChip
  <2>3. CASE cacheBuf' # cacheBuf
    <3>1. cacheBuf' = NoBuf /\ ~dirty
      BY <1>2, <2>3 DEF Close
    <3>2. \A b \in Blocks : View[b] = OnChip(b)
      BY <2>1, <3>1, ViewIsChip
    <3>3. \A b \in Blocks : View'[b] = OnChip(b)
      BY <2>1, <3>1 DEF View, OnChip
    <3>4. View' = [b \in Blocks |-> View'[b]] /\ View = [b \in Blocks |-> View[b]]
      BY DEF View
    <3> QED BY <2>1, <3>2, <3>3, <3>4
  <2> QED BY <2>2, <2>3
<1>3. CASE Erase
  <2>1. flash' = ErasedAt(cacheSector) /\ reg' = 0
    BY <1>3, HealthyCommand DEF Erase, Coherent
  <2>2. UNCHANGED <<cacheSector, cacheBuf, req>> /\ LineIsCached /\ cacheBuf # NoBuf
    BY <1>3, <2>1 DEF Erase, Coherent, Structure, TypeOK
  <2>3. ASSUME NEW b \in Blocks PROVE View'[b] = View[b]
    <3>1. SectorOf(b) \in Sectors
      BY BlockInSector
    <3>2. CASE SectorOf(b) = cacheSector
      <4>1. b \in CachedBlocks
        BY <2>2, <3>2, WholeSectorCached DEF LineIsCached
      <4> QED BY <2>2, <3>2, <4>1 DEF View
    <3>3. CASE SectorOf(b) # cacheSector
      <4>1. flash'[SectorOf(b)] = flash[SectorOf(b)]
        BY <2>1, <3>1, <3>3 DEF ErasedAt, Structure, TypeOK
      <4> QED BY <2>2, <3>3, <4>1 DEF View, OnChip
    <3> QED BY <3>2, <3>3
  <2>4. View' = [b \in Blocks |-> View'[b]] /\ View = [b \in Blocks |-> View[b]]
    BY DEF View
  <2> QED BY <2>2, <2>3, <2>4
<1>4. CASE Program
  <2>1. flash' = ProgrammedAt(cacheSector) /\ reg' = 0
    BY <1>4, HealthyCommand DEF Program, Coherent
  <2>2. /\ cacheSector' = cacheSector /\ LineIsCached /\ pc = "program"
        /\ cacheBuf # NoBuf /\ cacheBuf \in [Idx -> SUBSET Bits] /\ cacheSector \in Sectors
        /\ cacheBuf' \in {NoBuf, cacheBuf}
    BY <1>4 DEF Program, Coherent, Structure, TypeOK, Line, Cell
  <2>3. req' = req
    BY <1>4, <2>1 DEF Program, End, Structure, TypeOK
  <2>4. ASSUME NEW b \in Blocks PROVE View'[b] = View[b]
    <3>1. SectorOf(b) \in Sectors /\ OffOf(b) \in Idx
      BY BlockInSector
    <3>2. CASE SectorOf(b) = cacheSector
      <4>1. b \in CachedBlocks
        BY <2>2, <3>2, WholeSectorCached DEF LineIsCached
      <4>2. flash[cacheSector][OffOf(b)] = Bits
        BY <2>2, <3>1 DEF Coherent, Erased
      <4>3. flash'[cacheSector][OffOf(b)] = Bits \cap cacheBuf[OffOf(b)]
        BY <2>1, <2>2, <3>1, <4>2 DEF ProgrammedAt, Structure, TypeOK
      <4>4. cacheBuf[OffOf(b)] \subseteq Bits
        BY <2>2, <3>1
      <4>5. View[b] = cacheBuf[OffOf(b)] /\ View'[b] = cacheBuf[OffOf(b)]
        BY <2>2, <3>2, <4>1, <4>3, <4>4 DEF View, OnChip
      <4> QED BY <4>5
    <3>3. CASE SectorOf(b) # cacheSector
      <4>1. flash'[SectorOf(b)] = flash[SectorOf(b)]
        BY <2>1, <3>1, <3>3 DEF ProgrammedAt, Structure, TypeOK
      <4> QED BY <2>2, <3>3, <4>1 DEF View, OnChip
    <3> QED BY <3>2, <3>3
  <2>5. View' = [b \in Blocks |-> View'[b]] /\ View = [b \in Blocks |-> View[b]]
    BY DEF View
  <2> QED BY <2>3, <2>4, <2>5
<1>5. CASE TimerExpires \/ TimerCallback \/ ChipReady
  <2>1. UNCHANGED <<flash, cacheSector, cacheBuf, req>>
    BY <1>5 DEF TimerExpires, TimerCallback, ChipReady, cacheVars
  <2> QED BY <2>1 DEF View, OnChip
<1> QED BY <1>1, <1>2, <1>3, <1>4, <1>5

\* For every geometry, every sector-aligned partition table and every request:
\* the driver with its cache, timer and mutex is the flat disk, which loses
\* something only when the power goes, and then only of the unsafe sectors.
THEOREM ImplementsFlatDisk ==
  ASSUME Healthy, Aligned PROVE Spec => DiskRefined
<1>1. Init => Disk!DiskInit
  <2>1. SUFFICES ASSUME Init PROVE Disk!DiskInit
    OBVIOUS
  <2>2. View \in [Blocks -> Cell]
    BY <2>1, StructureInit, ViewType
  <2> QED BY <2>1, <2>2 DEF Init, Disk!DiskInit, Disk!Blocks, Blocks, Disk!Cell, Cell,
             Disk!NoRequest, NoRequest, Unsafe
<1>2. ASSUME Structure, Coherent, Structure', Coherent', [Next]_vars
      PROVE  [Disk!DiskNext]_<<View, req, Unsafe, pc # "off">>
  <2> DEFINE up == pc # "off"
             Powered == up /\ (up' = up) /\ Disk!Risk
  <2>0. ASSUME \/ \E p \in Parts : Open(p) \/ Close(p)
               \/ WriteAny \/ Fill \/ Erase \/ Program \/ ProgramRaw \/ EraseAny
               \/ TimerExpires \/ TimerCallback \/ ChipReady,
               up
        PROVE  Powered
    BY <1>2, <2>0, PoweredSteps
  <2>1. CASE \/ \E p \in Parts : Open(p) \/ Close(p)
             \/ Erase \/ Program \/ TimerExpires \/ TimerCallback \/ ChipReady
    <3>1. View' = View /\ req' = req
      BY <1>2, <2>1, HiddenSteps
    <3>2. CASE up
      <4>1. Powered
        BY <2>0, <2>1, <3>2
      <4> QED BY <3>1, <4>1 DEF Disk!DiskNext, Disk!Settle
    <3>3. CASE ~up
      <4>1. FALSE
        <5>1. ~dirty /\ timer = "off" /\ chip = "ready"
          BY <1>2, <3>3 DEF Structure, Coherent
        <5> QED BY <2>1, <3>3, <5>1 DEF Open, Close, Erase, Program, TimerExpires,
                   TimerCallback, ChipReady
      <4> QED BY <4>1
    <3> QED BY <3>2, <3>3
  <2>2. CASE WriteAny
    <3>1. up
      BY <2>2 DEF WriteAny, Write
    <3> QED BY <1>2, <2>0, <2>2, <3>1, WriteAccepts DEF Disk!DiskNext
  <2>3. CASE Fill
    <3>1. up
      BY <2>3 DEF Fill
    <3> QED BY <1>2, <2>0, <2>3, <3>1, FillStores DEF Disk!DiskNext
  <2>4. CASE ProgramRaw
    <3>1. up
      BY <2>4 DEF ProgramRaw
    <3> QED BY <1>2, <2>0, <2>4, <3>1, ProgramRawStores DEF Disk!DiskNext
  <2>5. CASE EraseAny
    <3>1. up
      BY <2>5 DEF EraseAny, EraseIoctl
    <3>2. Disk!EraseSector
      BY <1>2, <2>5, EraseIoctlErases DEF EraseAny
    <3> QED BY <2>0, <2>5, <3>1, <3>2 DEF Disk!DiskNext
  <2>6. CASE PowerLoss
    BY <1>2, <2>6, PowerLossIsPowerCut DEF Disk!DiskNext
  <2>8. CASE PowerOn
    BY <1>2, <2>8, PowerOnIsPowerOn DEF Disk!DiskNext
  <2>7. CASE UNCHANGED vars
    BY <2>7 DEF vars, View, OnChip, Unsafe
  <2> QED BY <1>2, <2>1, <2>2, <2>3, <2>4, <2>5, <2>6, <2>7, <2>8 DEF Next
<1> QED BY <1>1, <1>2, CoherentAlways, PTL DEF Spec, DiskRefined, Disk!DiskSpec

-----------------------------------------------------------------------------
(* Reads.                                                                  *)

LEMMA SectorMonotone ==
  ASSUME NEW a \in Nat, NEW b \in Nat, a <= b
  PROVE  SectorOf(a) <= SectorOf(b)
<1>1. /\ SectorOf(a) \in Nat /\ OffOf(a) \in Idx /\ SectorOf(b) \in Nat /\ OffOf(b) \in Idx
      /\ a = SectorLen * SectorOf(a) + OffOf(a)
      /\ b = SectorLen * SectorOf(b) + OffOf(b)
  BY DivMod
<1>2. SUFFICES ASSUME SectorOf(b) + 1 <= SectorOf(a) PROVE FALSE
  BY <1>1
<1>3. SectorLen * (SectorOf(b) + 1) <= SectorLen * SectorOf(a)
  BY <1>1, <1>2, TimesMonotone
<1>4. SectorLen * (SectorOf(b) + 1) = SectorLen * SectorOf(b) + SectorLen
      /\ SectorLen * SectorOf(a) \in Nat /\ SectorLen * SectorOf(b) \in Nat
  BY <1>1, GeometryAssumption
<1>5. OffOf(a) \in Nat /\ OffOf(b) \in Nat /\ OffOf(b) < SectorLen
  BY <1>1, GeometryAssumption DEF Idx
<1> QED BY <1>1, <1>3, <1>4, <1>5, GeometryAssumption

\* A read that does not run into a dirty line from below returns the view.
THEOREM ReadsReturnTheView ==
  ASSUME Healthy, Aligned PROVE Spec => []ReadsCoherentOutsideLine
<1>1. ASSUME Structure, Coherent PROVE ReadsCoherentOutsideLine
  <2>1. SUFFICES ASSUME pc = "idle", NEW p \in opened, NEW n \in 1 .. MaxLen,
                        NEW a \in Region[p], Fits(p, a, n),
                        ~(dirty /\ RunsIntoLine(a, n)), NEW k \in 0 .. n - 1
                 PROVE  NorRead(a, n, p \in CachedParts)[k] = View[a + k]
    BY DEF ReadsCoherentOutsideLine
  <2> DEFINE b == a + k
  <2>2. p \in Parts /\ cacheBuf # NoBuf /\ cacheSector \in Sectors
    BY <1>1, <2>1 DEF Structure, TypeOK
  <2>3. /\ a \in Nat /\ k \in Nat /\ n \in Nat /\ n - 1 \in Nat /\ b \in Region[p]
        /\ b \in Blocks /\ b \in Nat /\ a <= b /\ b <= a + (n - 1)
        /\ a + (n - 1) = (a + n) - 1
    <3>1. a \in Blocks /\ b \in Region[p] /\ b \in Blocks
      BY <2>1, <2>2, PartAssumption DEF Fits
    <3>2. a \in Nat /\ b \in Nat
      BY <3>1, BlockInSector
    <3> QED BY <3>1, <3>2, GeometryAssumption
  <2>4. NorRead(a, n, p \in CachedParts)[k] =
          IF (p \in CachedParts) /\ SectorOf(a) = cacheSector /\ SectorOf(b) = cacheSector
          THEN cacheBuf[OffOf(b)] ELSE OnChip(b)
    BY DEF NorRead
  <2>5. CASE p \notin CachedParts
    <3>1. b \notin CachedBlocks
      BY <1>1, <2>2, <2>3, <2>5, RawSectorNotCached
    <3> QED BY <1>1, <2>3, <2>4, <2>5, <3>1, ViewIsChip
  <2>6. CASE p \in CachedParts /\ SectorOf(a) = cacheSector /\ SectorOf(b) = cacheSector
    <3>1. b \in CachedBlocks
      BY <2>3, <2>6 DEF CachedBlocks
    <3> QED BY <2>2, <2>3, <2>4, <2>6, <3>1 DEF View
  <2>7. CASE p \in CachedParts /\ SectorOf(b) # cacheSector
    BY <1>1, <2>3, <2>4, <2>7, ViewIsChip
  <2>8. CASE p \in CachedParts /\ SectorOf(a) # cacheSector /\ SectorOf(b) = cacheSector
    <3>1. SectorOf(a) <= SectorOf(b) /\ SectorOf(b) <= SectorOf(a + (n - 1))
      BY <2>3, SectorMonotone
    <3>2. SectorOf(a) \in Nat /\ SectorOf(b) \in Nat /\ SectorOf(a + (n - 1)) \in Nat
      BY <2>3, DivMod
    <3>3. SectorOf(a) < cacheSector /\ cacheSector <= SectorOf(a + (n - 1))
      BY <2>8, <3>1, <3>2
    <3>4. RunsIntoLine(a, n)
      BY <2>3, <3>3 DEF RunsIntoLine
    <3>5. View[b] = OnChip(b)
      BY <1>1, <2>1, <2>3, <3>4, ViewIsChip
    <3> QED BY <2>4, <2>8, <3>5
  <2> QED BY <2>5, <2>6, <2>7, <2>8
<1>2. Structure /\ Coherent => ReadsCoherentOutsideLine
  BY <1>1
<1> QED BY <1>2, CoherentAlways, PTL

-----------------------------------------------------------------------------
(* Faults included: a timeout runs for every dirty line.                   *)

\* Besides: unless it is spent, a handle has its timeout, and the callback's
\* flush has not given up either.
Timed == /\ DirtyIsTimed
         /\ hnd /\ ~spent => timer # "off"

\* Whatever the waits return, a dirty line is without a running timeout only
\* after a flush of the timer's callback has failed.
THEOREM DirtyLineIsTimed == Spec => []DirtyIsTimed
<1>1. Init => Timed
  BY DEF Init, Timed, DirtyIsTimed
<1>2. ASSUME Structure, Timed, [Next]_vars PROVE Timed'
  <2> USE DEF Timed, DirtyIsTimed
  <2>1. CASE \E p \in Parts : Open(p)
    BY <1>2, <2>1 DEF Open
  <2>2. ASSUME NEW p \in Parts, Close(p) PROVE Timed'
    <3>1. (dirty' => dirty) /\ hnd' = hnd /\ timer' = timer /\ spent' = spent
      BY <2>2 DEF Close
    <3> QED BY <1>2, <3>1, Zenon
  <2>3. ASSUME NEW p, NEW a, NEW data, Write(p, a, data) PROVE Timed'
    <3>1. (dirty' => dirty) /\ hnd' = hnd /\ timer' = timer /\ spent' = spent
      BY <2>3 DEF Write
    <3> QED BY <1>2, <3>1, Zenon
  <2>4. CASE Fill
    BY <1>2, <2>4 DEF Fill, Arm, Idle, timerVars
  <2>5. CASE Erase
    <3>1. dirty' = FALSE /\ hnd' = hnd
      BY <1>2, <2>5 DEF Erase, Structure, TypeOK
    <3>2. spent' = TRUE \/ UNCHANGED <<timer, spent>>
      BY <2>5 DEF Erase
    <3> QED BY <1>2, <3>1, <3>2
  <2>6. CASE Program
    <3>1. dirty' = FALSE /\ spent' = spent
      BY <1>2, <2>6 DEF Program, Structure, TypeOK
    <3>2. hnd' = FALSE \/ UNCHANGED <<hnd, timer>>
      BY <2>6 DEF Program, timerVars
    <3> QED BY <1>2, <3>1, <3>2
  <2>7. CASE ProgramRaw \/ EraseAny
    BY <1>2, <2>7 DEF ProgramRaw, EraseAny, EraseIoctl
  <2>8. CASE TimerExpires \/ TimerCallback \/ ChipReady
    BY <1>2, <2>8 DEF TimerExpires, TimerCallback, ChipReady, cacheVars, timerVars
  <2>9. CASE PowerLoss \/ PowerOn
    BY <1>2, <2>9 DEF PowerLoss, PowerOn, cacheVars, timerVars
  <2>10. CASE UNCHANGED vars
    BY <1>2, <2>10 DEF vars
  <2> QED BY <1>2, <2>1, <2>2, <2>3, <2>4, <2>5, <2>6, <2>7, <2>8, <2>9, <2>10
          DEF Next, WriteAny
<1>3. Timed => DirtyIsTimed
  BY DEF Timed
<1> QED BY <1>1, <1>2, <1>3, StructureAlways, PTL DEF Spec


-----------------------------------------------------------------------------
(* Faults included: what an operation may touch.                           *)

\* A change of the chip that is confined to sector s leaves the others alone.
LEMMA CommandTouches ==
  ASSUME Structure, NEW s \in Sectors, NEW line \in Line,
         flash' \in {flash, [flash EXCEPT ![s] = line]},
         NEW b \in Blocks, SectorOf(b) # s
  PROVE  OnChip(b)' = OnChip(b)
<1>1. SectorOf(b) \in Sectors
  BY BlockInSector
<1>2. flash'[SectorOf(b)] = flash[SectorOf(b)]
  BY <1>1 DEF Structure, TypeOK
<1> QED BY <1>2 DEF OnChip

\* Whatever the waits return and wherever the power goes, a block of a cached
\* partition changes on the chip only while its sector is the line.
THEOREM OnlyTheLineChangesAlways ==
  ASSUME Aligned PROVE Spec => OnlyTheLineChanges
<1> DEFINE Touched == chip = "ready" => \A b \in CachedBlocks :
                         OnChip(b)' # OnChip(b) => SectorOf(b) = cacheSector
<1>1. ASSUME Structure, [Next]_vars PROVE [Touched]_vars
  <2>1. SUFFICES ASSUME chip = "ready", NEW b \in CachedBlocks, SectorOf(b) # cacheSector
                 PROVE  OnChip(b)' = OnChip(b)
    OBVIOUS
  <2>2. /\ b \in Blocks /\ SectorOf(b) \in Sectors /\ cacheSector \in Sectors
        /\ flash \in [Sectors -> Line]
    BY <1>1, PartAssumption, BlockInSector DEF CachedBlocks, Structure, TypeOK
  <2>3. CASE UNCHANGED flash
    BY <2>3 DEF OnChip
  <2>4. CASE Erase
    <3>1. flash' = ErasedAt(cacheSector)
      BY <2>1, <2>4 DEF Erase, Command
    <3>2. [i \in Idx |-> Erased] \in Line
      BY DEF Line, Erased, Cell
    <3> QED BY <1>1, <2>1, <2>2, <3>1, <3>2, CommandTouches DEF ErasedAt
  <2>5. CASE Program
    <3>1. flash' = ProgrammedAt(cacheSector)
      BY <2>1, <2>5 DEF Program, Command
    <3>2. [i \in Idx |-> flash[cacheSector][i] \cap cacheBuf[i]] \in Line
      BY <2>2 DEF Line, Cell
    <3> QED BY <1>1, <2>1, <2>2, <3>1, <3>2, CommandTouches DEF ProgrammedAt
  <2>6. ASSUME pc = "raw" PROVE /\ SectorOf(req.addr) \in Sectors /\ OffOf(req.addr) \in Idx
                                /\ SectorOf(req.addr) # SectorOf(b)
    <3>1. req # NoRequest /\ req.raw /\ InRegion(req) /\ req.data # << >>
      BY <1>1, <2>6 DEF Structure
    <3> QED BY <1>1, <3>1, FirstBlock, FirstBlockOwner DEF Structure
  <2>7. CASE ProgramRaw
    <3>1. pc = "raw" /\ flash' = [flash EXCEPT ![SectorOf(req.addr)][OffOf(req.addr)] =
                                    @ \cap req.data[1]]
      BY <2>1, <2>7 DEF ProgramRaw, Command
    <3>2. flash'[SectorOf(b)] = flash[SectorOf(b)]
      BY <2>2, <2>6, <3>1
    <3> QED BY <3>2 DEF OnChip
  <2>8. CASE EraseAny
    <3>1. PICK p \in Parts \ CachedParts : \E c \in Region[p] : EraseIoctl(p, c)
      BY <2>8 DEF EraseAny
    <3>2. PICK c \in Region[p] : EraseIoctl(p, c)
      BY <3>1
    <3>3. c \in Blocks /\ SectorOf(c) \in Sectors /\ SectorOf(c) # SectorOf(b)
      BY <3>1, PartAssumption, BlockInSector, RawSectorNotCached
    <3>4. flash' = ErasedAt(SectorOf(c))
      BY <2>1, <3>2 DEF EraseIoctl, Command
    <3>5. flash'[SectorOf(b)] = flash[SectorOf(b)]
      BY <2>2, <3>3, <3>4 DEF ErasedAt
    <3> QED BY <3>5 DEF OnChip
  <2>9. CASE PowerLoss
    <3>1. PICK torn \in Line :
            flash' = CASE pc \in {"erase", "program"} -> [flash EXCEPT ![cacheSector] = torn]
                       [] pc = "raw" -> [flash EXCEPT ![SectorOf(req.addr)][OffOf(req.addr)] = torn[0]]
                       [] OTHER -> flash
      BY <2>1, <2>9 DEF PowerLoss
    <3>2. flash'[SectorOf(b)] = flash[SectorOf(b)]
      <4>1. CASE pc \in {"erase", "program"}
        BY <2>1, <2>2, <3>1, <4>1
      <4>2. CASE pc = "raw"
        BY <2>2, <2>6, <3>1, <4>2
      <4>3. CASE pc \notin {"erase", "program", "raw"}
        BY <3>1, <4>3
      <4> QED BY <4>1, <4>2, <4>3
    <3> QED BY <3>2 DEF OnChip
  <2>10. CASE \/ \E p \in Parts : Open(p) \/ Close(p)
              \/ WriteAny \/ Fill \/ TimerExpires \/ TimerCallback \/ ChipReady
              \/ PowerOn
    <3>1. UNCHANGED flash
      BY <2>10 DEF Open, Close, WriteAny, Write, Fill, TimerExpires, TimerCallback, ChipReady,
                   PowerOn
    <3> QED BY <2>3, <3>1
  <2>11. CASE UNCHANGED vars
    BY <2>3, <2>11 DEF vars
  <2> QED BY <1>1, <2>4, <2>5, <2>7, <2>8, <2>9, <2>10, <2>11 DEF Next
<1> QED BY <1>1, StructureAlways, PTL DEF Spec, OnlyTheLineChanges
=============================================================================
