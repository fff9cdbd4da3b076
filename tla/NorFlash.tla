---------------------------- MODULE NorFlash ----------------------------
(***************************************************************************)
(* The SPI NOR flash driver, apps/common/device/norflash/norflash.c: one  *)
(* 4 KB line of write-back cache in front of the chip, flushed when a     *)
(* write moves to another sector, when a write reaches the end of the     *)
(* line, 60 ms after the last write, and at the last close.  Partitions   *)
(* registered with norflash_dev_ops go through the cache, those           *)
(* registered with norfs_dev_ops read, program and erase the chip         *)
(* directly.  Every entry point holds _norflash.mutex, so operations do   *)
(* not interleave with one another; they are split here at the chip       *)
(* commands because the power can go between two commands.                *)
(*                                                                         *)
(* Data: a block stands for 512 bytes and is the set of its bits that     *)
(* read as 1, so that erasing is Bits and programming is intersection.    *)
(***************************************************************************)
EXTENDS Integers, Sequences, FiniteSets

CONSTANTS NumSectors, SectorLen, Bits,
          Parts,        \* partition names, nor_part[]
          Region,       \* Region[p]: the blocks start_addr .. start_addr + size - 1
          CachedParts,  \* those registered with norflash_dev_ops
          MaxLen,       \* longest request, in blocks
          MaxPolls,     \* polls _norflash_wait_ok makes: 80000
          TimeoutMod,   \* 2^32: the width of its counter
          ChipPolls     \* how many polls a command of this chip may need

ASSUME GeometryAssumption == /\ NumSectors \in Nat \ {0}
                             /\ SectorLen \in Nat \ {0}
                             /\ MaxLen \in Nat \ {0}
ASSUME PollAssumption == /\ MaxPolls \in Nat \ {0}
                         /\ TimeoutMod \in Nat /\ TimeoutMod > MaxPolls + 1
                         /\ ChipPolls \subseteq 1 .. MaxPolls + 1

Sectors == 0 .. NumSectors - 1
Idx     == 0 .. SectorLen - 1
Blocks  == 0 .. NumSectors * SectorLen - 1
Cell    == SUBSET Bits
Erased  == Bits
Line    == [Idx -> Cell]

ASSUME PartAssumption == /\ IsFiniteSet(Parts)
                         /\ CachedParts \subseteq Parts
                         /\ Region \in [Parts -> SUBSET Blocks]

SectorOf(b)  == b \div SectorLen
OffOf(b)     == b % SectorLen
CachedBlocks == UNION {Region[p] : p \in CachedParts}

\* Conditions some properties need.  Partitions begin and end at sectors, as
\* all three of board_ac696x_demo.c do, and do not overlap, as its FAT and its
\* recorder partition (the third covers both, and is enabled without them).
\* And every command completes before the last poll of its wait.
Aligned == /\ \A p \in Parts : \A b \in Region[p] : \A c \in Blocks :
                 SectorOf(c) = SectorOf(b) => c \in Region[p]
           /\ \A p, q \in Parts : p # q => Region[p] \cap Region[q] = {}
Healthy == ChipPolls \subseteq 1 .. MaxPolls - 1

NoBuf     == << >>
NoRequest == [addr |-> 0, data |-> << >>, raw |-> FALSE]

VARIABLES flash,        \* the chip
          chip,         \* "busy": the last command outlived its wait
          opened,       \* partitions with a non-zero device.ref
          openCnt,      \* _norflash.open_cnt
          cacheSector,  \* flash_cache_addr / 4096
          cacheBuf,     \* flash_cache_buf, NoBuf when it is freed
          dirty,        \* flash_cache_is_dirty
          hnd,          \* flash_cache_timer is not 0
          timer,        \* the timeout itself: "off", "armed", "fired"
          pc,           \* the next chip command of the operation in progress;
                        \* "off" while there is no power
          why,          \* what that operation is
          req,          \* what is left of a write
          reg,          \* what the last wait returned
          spent         \* history: the timer's own flush has failed, so that
                        \* the handle it leaves behind names no timeout

cacheVars == <<cacheSector, cacheBuf, dirty>>
timerVars == <<hnd, timer>>
vars == <<flash, chip, opened, openCnt, cacheSector, cacheBuf, dirty,
          hnd, timer, pc, why, req, reg, spent>>

-----------------------------------------------------------------------------
(* _norflash_wait_ok counts down with while (timeout--): ready at poll n   *)
(* leaves MaxPolls - n, running out wraps the counter below 0.             *)
WaitOk(n) == IF (MaxPolls - n) % TimeoutMod = 0 THEN 1 ELSE 0

\* A command and its wait.  A busy chip ignores the command.
Command(effect) ==
    /\ flash' = IF chip = "ready" THEN effect ELSE flash
    /\ \E n \in ChipPolls : /\ reg'  = WaitOk(n)
                            /\ chip' = IF n > MaxPolls THEN "busy" ELSE "ready"

\* Mutant: a block erase where the driver erases a sector.
BlockErasedAt(s) == [t \in Sectors |-> [i \in Idx |-> Erased]]
ErasedAt(s)      == [flash EXCEPT ![s] = [i \in Idx |-> Erased]]
ProgrammedAt(s)  == [flash EXCEPT ![s] = [i \in Idx |-> flash[s][i] \cap cacheBuf[i]]]

\* What _norflash_read(.., cache = 0) of a whole sector may return.
Loaded(s) == IF chip = "ready" THEN {flash[s]} ELSE Line

Arm == IF hnd THEN UNCHANGED timerVars            \* sys_timer_re_run
              ELSE hnd' = TRUE /\ timer' = "armed" \* sys_timeout_add

Idle == pc' = "idle" /\ why' = "none"
End  == Idle /\ req' = NoRequest

-----------------------------------------------------------------------------
(* Opening and closing.  The device layer calls open for a partition whose *)
(* ref is 0 and close when the ref returns to 0.                            *)
\* Mutant: only the first open is counted.
OpenCountedOnce(p) ==
    /\ pc = "idle" /\ p \notin opened
    /\ opened' = opened \cup {p}
    /\ openCnt' = 1
    /\ IF openCnt = 0
       THEN cacheSector' = 0 /\ cacheBuf' \in Loaded(0)
       ELSE UNCHANGED <<cacheSector, cacheBuf>>
    /\ UNCHANGED <<flash, chip, dirty, hnd, timer, pc, why, req, reg, spent>>

Open(p) ==
    /\ pc = "idle" /\ p \notin opened
    /\ opened' = opened \cup {p}
    /\ openCnt' = openCnt + 1
    /\ IF openCnt = 0
       THEN cacheSector' = 0 /\ cacheBuf' \in Loaded(0)
       ELSE UNCHANGED <<cacheSector, cacheBuf>>
    /\ UNCHANGED <<flash, chip, dirty, hnd, timer, pc, why, req, reg, spent>>

\* Mutant: the last close frees the buffer without flushing a dirty line.
CloseDropsLine(p) ==
    /\ pc = "idle" /\ p \in opened
    /\ opened' = opened \ {p}
    /\ openCnt' = IF openCnt > 0 THEN openCnt - 1 ELSE 0
    /\ dirty' = IF openCnt' > 0 THEN dirty ELSE FALSE
    /\ cacheBuf' = IF openCnt' = 0 THEN NoBuf ELSE cacheBuf
    /\ UNCHANGED <<flash, chip, cacheSector, hnd, timer, pc, why, req, reg, spent>>

Close(p) ==
    /\ pc = "idle" /\ p \in opened
    /\ opened' = opened \ {p}
    /\ openCnt' = IF openCnt > 0 THEN openCnt - 1 ELSE 0
    /\ dirty' = IF openCnt' > 0 THEN dirty ELSE FALSE
    /\ IF openCnt' = 0 /\ dirty
       THEN pc' = "erase" /\ why' = "close" /\ UNCHANGED cacheBuf
       ELSE /\ cacheBuf' = IF openCnt' = 0 THEN NoBuf ELSE cacheBuf
            /\ UNCHANGED <<pc, why>>
    /\ UNCHANGED <<flash, chip, cacheSector, hnd, timer, req, reg, spent>>

-----------------------------------------------------------------------------
(* Writing.  Write takes the mutex; Erase and Program put the line back,   *)
(* first if it is dirty and the request is for another sector; Fill loads  *)
(* the sector, copies the part of the request that falls in it, and either *)
(* leaves it dirty with the timer running or, when the copy reaches the    *)
(* end of the line, writes it through at once and goes on.                 *)
Write(p, a, data) ==
    /\ pc = "idle" /\ p \in opened
    /\ req' = [addr |-> a, data |-> data, raw |-> p \notin CachedParts]
    /\ IF p \notin CachedParts
       THEN pc' = "raw" /\ why' = "write" /\ UNCHANGED dirty
       ELSE IF dirty /\ SectorOf(a) # cacheSector
            THEN dirty' = FALSE /\ pc' = "erase" /\ why' = "evict"
            ELSE pc' = "fill" /\ why' = "write" /\ UNCHANGED dirty
    /\ UNCHANGED <<flash, chip, opened, openCnt, cacheSector, cacheBuf,
                   hnd, timer, reg, spent>>

ChunkLen(r) == LET room == SectorLen - OffOf(r.addr)
               IN  IF Len(r.data) > room THEN room ELSE Len(r.data)

Rest(r, n) == IF n >= Len(r.data) THEN NoRequest
              ELSE [addr |-> r.addr + n,
                    data |-> SubSeq(r.data, n + 1, Len(r.data)),
                    raw  |-> r.raw]

\* memcpy of the first n blocks of r into the line.
Merged(line, r, n) ==
    [i \in Idx |-> IF i >= OffOf(r.addr) /\ i < OffOf(r.addr) + n
                   THEN r.data[i - OffOf(r.addr) + 1] ELSE line[i]]

Fill ==
    LET s == SectorOf(req.addr)
        n == ChunkLen(req)
    IN
    /\ pc = "fill"
    /\ \E line \in IF s = cacheSector THEN {cacheBuf} ELSE Loaded(s) :
          cacheBuf' = Merged(line, req, n)
    /\ cacheSector' = s
    /\ req' = Rest(req, n)
    /\ IF (req.addr + n) % SectorLen # 0
       THEN dirty' = TRUE /\ Arm /\ Idle
       ELSE /\ dirty' = FALSE /\ pc' = "erase" /\ why' = "through"
            /\ UNCHANGED timerVars
    /\ UNCHANGED <<flash, chip, opened, openCnt, reg, spent>>

\* After the erase: on with the program, unless the wait reported an error.
\* The close path ignores what the erase returns.  The timer's callback then
\* leaves flash_cache_timer as it is, though its timeout has run out.
Erase ==
    /\ pc = "erase"
    /\ Command(ErasedAt(cacheSector))
    /\ IF reg' = 0 \/ why = "close"
       THEN pc' = "program" /\ UNCHANGED <<why, req, timer, spent>>
       ELSE /\ End
            /\ IF why = "timer" THEN timer' = "off" /\ spent' = TRUE
                                ELSE UNCHANGED <<timer, spent>>
    /\ UNCHANGED <<opened, openCnt, cacheSector, cacheBuf, dirty, hnd>>

\* After the program: a write goes on or returns the error, the timer
\* callback deletes its timer, the close frees the buffer.
Program ==
    /\ pc = "program"
    /\ Command(ProgrammedAt(cacheSector))
    /\ IF why \in {"evict", "through"} /\ reg' = 0 /\ req # NoRequest
       THEN pc' = "fill" /\ why' = "write" /\ UNCHANGED req
       ELSE End
    /\ IF why = "timer" THEN hnd' = FALSE /\ timer' = "off"
                        ELSE UNCHANGED timerVars
    /\ cacheBuf' = IF why = "close" THEN NoBuf ELSE cacheBuf
    /\ UNCHANGED <<opened, openCnt, cacheSector, dirty, spent>>

\* _norflash_write_pages called directly: one page program per step.
ProgramRaw ==
    LET s == SectorOf(req.addr)
        i == OffOf(req.addr)
    IN
    /\ pc = "raw"
    /\ Command([flash EXCEPT ![s][i] = @ \cap req.data[1]])
    /\ req' = IF reg' = 0 THEN Rest(req, 1) ELSE NoRequest
    /\ IF req' = NoRequest THEN Idle ELSE UNCHANGED <<pc, why>>
    /\ UNCHANGED <<opened, openCnt, cacheSector, cacheBuf, dirty, hnd, timer,
                   spent>>

\* ioctl IOCTL_ERASE_SECTOR: the sector of a block of the partition.
EraseIoctl(p, b) ==
    /\ pc = "idle" /\ p \in opened
    /\ Command(ErasedAt(SectorOf(b)))
    /\ UNCHANGED <<opened, openCnt, cacheSector, cacheBuf, dirty, hnd, timer,
                   pc, why, req, spent>>

-----------------------------------------------------------------------------
(* _norflash_read changes nothing; this is what it returns for n blocks at *)
(* a.  With the cache, only the sector of the first block is looked up in  *)
(* the line, the rest comes from the chip.                                  *)
OnChip(b) == flash[SectorOf(b)][OffOf(b)]
\* Mutant: a read that starts in the line is served from it to its end.
NorReadWrapping(a, n, cache) ==
    [k \in 0 .. n - 1 |->
        IF cache /\ SectorOf(a) = cacheSector THEN cacheBuf[OffOf(a + k)]
                                               ELSE OnChip(a + k)]

NorRead(a, n, cache) ==
    [k \in 0 .. n - 1 |->
        IF cache /\ SectorOf(a) = cacheSector /\ SectorOf(a + k) = cacheSector
        THEN cacheBuf[OffOf(a + k)] ELSE OnChip(a + k)]

-----------------------------------------------------------------------------
(* The 60 ms timeout: it expires by itself, and its callback runs later in *)
(* the thread that added it, taking the mutex.                              *)
TimerExpires == /\ timer = "armed"
                /\ timer' = "fired"
                /\ UNCHANGED <<flash, chip, opened, openCnt, cacheVars, hnd,
                               pc, why, req, reg, spent>>

\* Mutant: the callback marks the line clean and stops there.
CallbackForgetsLine ==
    /\ timer = "fired" /\ pc = "idle"
    /\ dirty' = FALSE /\ hnd' = FALSE /\ timer' = "off"
    /\ UNCHANGED <<flash, chip, opened, openCnt, cacheSector, cacheBuf,
                   pc, why, req, reg, spent>>

\* Mutant: the callback of a clean line does not zero flash_cache_timer.
CallbackKeepsHandle ==
    /\ timer = "fired" /\ pc = "idle"
    /\ IF dirty
       THEN dirty' = FALSE /\ pc' = "erase" /\ why' = "timer"
            /\ UNCHANGED timerVars
       ELSE timer' = "off" /\ UNCHANGED <<hnd, dirty, pc, why>>
    /\ UNCHANGED <<flash, chip, opened, openCnt, cacheSector, cacheBuf, req, reg,
                   spent>>

TimerCallback ==
    /\ timer = "fired" /\ pc = "idle"
    /\ IF dirty
       THEN dirty' = FALSE /\ pc' = "erase" /\ why' = "timer"
            /\ UNCHANGED timerVars
       ELSE hnd' = FALSE /\ timer' = "off" /\ UNCHANGED <<dirty, pc, why>>
    /\ UNCHANGED <<flash, chip, opened, openCnt, cacheSector, cacheBuf, req, reg,
                   spent>>

\* A command that outlived its wait completes.
ChipReady == /\ chip = "busy"
             /\ chip' = "ready"
             /\ UNCHANGED <<flash, opened, openCnt, cacheVars, hnd, timer,
                            pc, why, req, reg, spent>>

\* The power goes: RAM is lost, and a sector whose erase or program was
\* under way is left with anything in it.  Which sector a command that
\* outlived its wait was for is not kept: it may be any.
PowerLoss ==
    /\ pc # "off"
    /\ \E torn \in Line, s \in Sectors :
         flash' = CASE chip = "busy" -> [flash EXCEPT ![s] = torn]
                    [] chip = "ready" /\ pc \in {"erase", "program"} ->
                         [flash EXCEPT ![cacheSector] = torn]
                    [] chip = "ready" /\ pc = "raw" ->
                         [flash EXCEPT ![SectorOf(req.addr)][OffOf(req.addr)] = torn[0]]
                    [] OTHER -> flash
    /\ chip' = "ready" /\ reg' = 0
    /\ opened' = {} /\ openCnt' = 0
    /\ cacheSector' = 0 /\ cacheBuf' = NoBuf /\ dirty' = FALSE
    /\ hnd' = FALSE /\ timer' = "off" /\ spent' = FALSE
    /\ pc' = "off" /\ why' = "none" /\ req' = NoRequest

PowerOn == /\ pc = "off"
           /\ pc' = "idle"
           /\ UNCHANGED <<flash, chip, opened, openCnt, cacheVars, timerVars,
                          why, req, reg, spent>>

-----------------------------------------------------------------------------
Init ==
    /\ flash \in [Sectors -> Line]
    /\ chip = "ready" /\ reg = 0
    /\ opened = {} /\ openCnt = 0
    /\ cacheSector = 0 /\ cacheBuf = NoBuf /\ dirty = FALSE
    /\ hnd = FALSE /\ timer = "off" /\ spent = FALSE
    /\ pc = "idle" /\ why = "none" /\ req = NoRequest

\* A request stays inside its partition.
Fits(p, a, n) == \A k \in 0 .. n - 1 : a + k \in Region[p]

WriteAny == \E p \in Parts, n \in 1 .. MaxLen : \E a \in Region[p] :
              Fits(p, a, n) /\ \E data \in [1 .. n -> Cell] : Write(p, a, data)

EraseAny == \E p \in Parts \ CachedParts : \E b \in Region[p] : EraseIoctl(p, b)

Next == \/ \E p \in Parts : Open(p) \/ Close(p)
        \/ WriteAny \/ Fill \/ Erase \/ Program \/ ProgramRaw
        \/ EraseAny
        \/ TimerExpires \/ TimerCallback
        \/ ChipReady \/ PowerLoss \/ PowerOn

\* The operation in progress runs on, and a running timeout expires and has
\* its callback called.
Fairness == /\ WF_vars(Fill \/ Erase \/ Program \/ ProgramRaw)
            /\ WF_vars(TimerExpires)
            /\ WF_vars(TimerCallback)

Spec == Init /\ [][Next]_vars
FairSpec == Spec /\ Fairness

-----------------------------------------------------------------------------
TypeOK ==
    /\ flash \in [Sectors -> Line]
    /\ chip \in {"ready", "busy"} /\ reg \in {0, 1}
    /\ opened \in SUBSET Parts /\ openCnt = Cardinality(opened)
    /\ cacheSector \in Sectors /\ cacheBuf \in Line \cup {NoBuf}
    /\ dirty \in BOOLEAN /\ hnd \in BOOLEAN /\ spent \in BOOLEAN
    /\ timer \in {"off", "armed", "fired"}
    /\ pc \in {"off", "idle", "erase", "program", "fill", "raw"}
    /\ why \in {"none", "write", "evict", "through", "timer", "close"}
    /\ req \in [addr : Nat, data : Seq(Cell), raw : BOOLEAN]

\* How the phase of an operation, the opens, the buffer and the request hang
\* together: the frame every proof about the driver starts from.
InRegion(r) == \E p \in opened : /\ r.raw = (p \notin CachedParts)
                                 /\ Fits(p, r.addr, Len(r.data))
Structure ==
    /\ TypeOK
    /\ pc \in {"idle", "off"} <=> why = "none"
    /\ pc = "off" => opened = {} /\ timer = "off"
    /\ pc \in {"fill", "raw"} <=> why = "write"
    /\ cacheBuf = NoBuf <=> (opened = {} /\ why # "close")
    /\ dirty => opened # {} /\ pc \in {"idle", "fill", "raw"}
    /\ why \in {"write", "evict", "through", "timer"} => opened # {}
    /\ why = "close" => opened = {}
    /\ why \in {"none", "timer", "close"} => req = NoRequest
    /\ why \in {"write", "evict"} => req # NoRequest
    /\ req # NoRequest => InRegion(req) /\ req.data # << >>
    /\ pc = "fill" \/ why = "evict" => ~req.raw
    /\ pc = "raw" => req.raw
    /\ why = "through" => ~req.raw

\* The line and the chip: a line in use covers a sector of the cached
\* partitions, a clean one equals the chip, and between erase and program
\* the sector is blank.
LineIsCached == \E b \in CachedBlocks : SectorOf(b) = cacheSector
Coherent ==
    /\ chip = "ready" /\ reg = 0
    /\ dirty \/ pc \in {"erase", "program"} => LineIsCached
    /\ pc = "fill" /\ dirty => SectorOf(req.addr) = cacheSector
    /\ pc = "program" => flash[cacheSector] = [i \in Idx |-> Erased]
    /\ cacheBuf # NoBuf /\ ~dirty /\ pc \notin {"erase", "program"} /\ LineIsCached
         => flash[cacheSector] = cacheBuf

\* What the file systems see: the line where it holds the block, else the chip.
View == [b \in Blocks |->
           IF cacheBuf # NoBuf /\ SectorOf(b) = cacheSector /\ b \in CachedBlocks
           THEN cacheBuf[OffOf(b)] ELSE OnChip(b)]

\* The sectors that hold something the chip does not have whole: a dirty
\* line's or one being written back, and that of a raw request in progress.
Unsafe == (IF dirty \/ pc \in {"erase", "program"} THEN {cacheSector} ELSE {})
          \cup (IF pc = "raw" THEN {SectorOf(req.addr)} ELSE {})

\* The driver is the flat disk: whatever the cache, the timer and the opens
\* and closes do, the blocks a partition sees change only as its own
\* requests say, and only when the power goes is anything lost, of the
\* unsafe sectors alone.
Disk == INSTANCE FlatDisk WITH disk <- View, todo <- req, unsafe <- Unsafe,
                               up <- (pc # "off")
DiskRefined == Disk!DiskSpec

\* When no operation is running and the line is clean, every block that was
\* ever written through the cache is on the chip: a power cut now loses
\* nothing, and neither do the last close and a new open.
CleanIsDurable ==
    pc = "idle" /\ ~dirty => \A b \in CachedBlocks : OnChip(b) = View[b]

\* A read of any length returns what was last written, block for block.
ReadsCoherent ==
    pc = "idle" => \A p \in opened, n \in 1 .. MaxLen : \A a \in Region[p] :
        Fits(p, a, n) => \A k \in 0 .. n - 1 :
            NorRead(a, n, p \in CachedParts)[k] = View[a + k]

\* The reads for which that holds: all but those that start below a dirty
\* line and run into it.
RunsIntoLine(a, n) == SectorOf(a) < cacheSector /\ cacheSector <= SectorOf(a + n - 1)
ReadsCoherentOutsideLine ==
    pc = "idle" => \A p \in opened, n \in 1 .. MaxLen : \A a \in Region[p] :
        Fits(p, a, n) /\ ~(dirty /\ RunsIntoLine(a, n)) => \A k \in 0 .. n - 1 :
            NorRead(a, n, p \in CachedParts)[k] = View[a + k]

\* Even when waits fail, a block of a cached partition changes on the chip
\* only while its sector is the line: an error or a power cut in the middle
\* of a request never reaches the sectors the request has left behind.  Only
\* a power cut while a command outlives its wait may damage another sector.
OnlyTheLineChanges ==
    [][chip = "ready" => \A b \in CachedBlocks :
         OnChip(b)' # OnChip(b) => SectorOf(b) = cacheSector]_vars

\* Whatever the waits return, a timeout runs for every dirty line, unless the
\* callback's own erase has failed since power on: that leaves a handle whose
\* timeout has run out, which later writes take for a running one, and their
\* line waits for an eviction or the last close.  No other error, eviction,
\* close or late callback leaves a line without its timeout.
DirtyIsTimed == dirty /\ ~spent => timer # "off"

\* Unless writers never stop, the line gets back to the chip.
QuietLineIsSynced == []<><<WriteAny>>_vars \/ []<>~dirty
=============================================================================
