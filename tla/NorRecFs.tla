----------------------------- MODULE NorRecFs -----------------------------
(***************************************************************************)
(* The recorder file system on raw NOR flash (apps/common/rec_nor).  The   *)
(* sectors of its partition are a ring.  A recording takes the sectors     *)
(* after the newest one, erased one at a time as the writing gets there,   *)
(* and is published by a header that its close programs at its front.  The *)
(* index of the newest recording is only in RAM; a mount finds it again by *)
(* scanning for headers.                                                   *)
(*                                                                         *)
(* A sector number stands for the address at which the sector begins, as   *)
(* in the code's `sector << sector_size`.  A byte of a recording is the    *)
(* recording's number with the position in the file, and recorded data     *)
(* never looks like a header, which has two checksums.  A chip operation   *)
(* is indivisible, but power may go between any two of a write.  The calls *)
(* that make a recording are those of the recorder, the only one to open a *)
(* file of this system for writing (encode_write_file.c, audio_enc_file.c).*)
(***************************************************************************)
EXTENDS Integers, FiniteSets

CONSTANTS SectorLen,   \* 1 << sector_size
          First, Last, \* first_sector, last_sector
          HeadLen,     \* sizeof(RECFILEHEAD)
          Sizes,       \* lengths of reads and writes
          Offsets,     \* offsets of a reader's seeks
          Cuts,        \* cut_size: lengths the recorder cuts off at the end
          MinLen,      \* limit_size: a recording is kept above this length
          WavLen,      \* WAV_FILE_HEAD_LEN: the header of a WAV recording's own format
          MaxIndex     \* bound: numbers of recordings, below 2^16

ASSUME FlashAssumption == /\ SectorLen \in Nat \ {0}
                          /\ First \in Nat \ {0} /\ Last \in Nat /\ First <= Last
                          /\ HeadLen \in 1 .. SectorLen
                          /\ Sizes \subseteq Nat \ {0} /\ Offsets \subseteq Int
                          /\ Cuts \subseteq Nat /\ MinLen \in Nat
                          /\ WavLen \in Nat \ {0}
                          /\ HeadLen + WavLen <= SectorLen
                          /\ HeadLen <= MinLen /\ WavLen <= MinLen
                          /\ \A b \in Sizes : WavLen <= b
                          /\ MaxIndex \in Nat

Lo == First * SectorLen
Hi == (Last + 1) * SectorLen
Size == Hi - Lo
Addrs == Lo .. Hi - 1
Starts == {k * SectorLen : k \in First .. Last}

Blank == [is |-> "blank", index |-> 0, at |-> 0]      \* erased
Zero == [is |-> "zero", index |-> 0, at |-> 0]        \* a header that recpfs_clear zeroed
Mixed == [is |-> "mixed", index |-> 0, at |-> 0]      \* programmed twice
Data(i, p) == [is |-> "data", index |-> i, at |-> p]
Header(i, len) == [is |-> "head", index |-> i, at |-> len]

VARIABLES
  flash,    \* what each address of the partition holds
  mounted,
  pfs,      \* index and sector of the newest recording, total_file
  last,     \* nor_fs_index: the recording an open for reading opens
  mode,     \* "none", "write" or "read": how the file is open; "search": the search
            \* for a recording goes round for ever; "spilt": what lay behind a buffer
            \* in RAM was programmed, over anything
  file,     \* struct __NOR_REC_FILE while the file is open, without w_len,
            \* which is only ever returned
  head,     \* length of the format's own header in the recording: WavLen or none
  astray    \* history: a recording was begun in front of the partition, was closed
            \* with more than its room, or had its format's header updated

vars == <<flash, mounted, pfs, last, mode, file, head, astray>>

NoFile == [index |-> 0, sector |-> 0, len |-> 0, rw_p |-> 0]
NoPfs == [index |-> 0, sector |-> 0, total |-> 0]

-----------------------------------------------------------------------------
\* Addresses on the ring, and headers

Wrap(a) == IF a >= Hi THEN a - Size ELSE a
Offset(base, a) == IF a >= base THEN a - base ELSE a - base + Size
RoundUp(len) == ((len + SectorLen - 1) \div SectorLen) * SectorLen
SectorAt(s) == s .. s + SectorLen - 1
Atleast(a, b) == IF a > b THEN a ELSE b

\* A header that the checks of the scans accept.
Valid(s) == s \in Starts /\ flash[s].is = "head" /\ flash[s].at <= Size
Headers == {s \in Starts : Valid(s)}
Span(s) == Atleast(RoundUp(flash[s].at), IF flash[s].at = 0 THEN SectorLen ELSE 0)

\* A file that ends inside a sector does not count that sector.
CheckHeadShort(s) == IF Valid(s) THEN s + (flash[s].at \div SectorLen) * SectorLen ELSE s

\* nor_check_head: where the next recording goes, before it is wrapped.
CheckHead(s) == IF Valid(s) THEN s + RoundUp(flash[s].at) ELSE s

\* rec_pfs_scan goes from the first sector to the last, from a file to the
\* sector behind it: it sees a header unless that is inside a file it saw.
Seen(found) == found = {s \in Headers : \A t \in found : ~(t < s /\ s < t + Span(t))}

\* The last one on the chip instead of the one with the largest number.
NewestIsLast(s, found) == \A t \in found : t <= s

\* The oldest recording instead of the newest.
NewestIsOldest(s, found) == \A t \in found : flash[s].index <= flash[t].index

Newest(s, found) ==
  \A t \in found : \/ flash[t].index < flash[s].index
                   \/ flash[t].index = flash[s].index /\ t <= s
EmptyPfs == [index |-> 0, sector |-> Lo, total |-> 0]
FoundPfs(s, found) == [index |-> flash[s].index, sector |-> s, total |-> Cardinality(found)]

\* A file is always followed by a partial sector.
StepFromTooFar(s) == LET n == IF Valid(s) THEN s + Span(s) + SectorLen ELSE s + SectorLen
                     IN IF n >= Hi THEN Lo ELSE n

\* recfile_index_scan: from the newest recording on, back to the first sector
\* at the end of the partition, until the walk meets its beginning again.
StepFrom(s) == LET n == IF Valid(s) THEN s + Span(s) ELSE s + SectorLen
               IN IF n >= Hi THEN Lo ELSE n
Walk[k \in 0 .. 2 * (Last + 1)] == IF k = 0 THEN pfs.sector ELSE StepFrom(Walk[k - 1])
WalkEnds == \E k \in 1 .. 2 * (Last + 1) : Walk[k] = pfs.sector
Hit(s, i) == Valid(s) /\ flash[s].index = i
Hits(i) ==
  {k \in 0 .. 2 * (Last + 1) :
     Hit(Walk[k], i) /\ \A j \in 0 .. k - 1 : ~Hit(Walk[j], i) /\ Walk[j + 1] # pfs.sector}
-----------------------------------------------------------------------------
\* Programming and erasing

Program(old, new) == IF old = Blank THEN new ELSE Mixed

Erase(s) == [a \in Addrs |-> IF s \in Starts /\ a \in SectorAt(s) THEN Blank ELSE flash[a]]

\* The file after `upto' bytes of room have been erased for it and n bytes
\* programmed at its position.  The first write of a WAV recording has 0xff
\* where the format's header will be, which programs nothing.
Written(upto, n) ==
  [a \in Addrs |->
    LET p == Offset(file.sector, a)
        old == IF p \in file.len .. upto - 1 THEN Blank ELSE flash[a]
    IN IF p \in Atleast(file.rw_p, HeadLen + head) .. file.rw_p + n - 1
       THEN Program(old, Data(file.index, p))
       ELSE old]

\* The header of a closed file with `own' bytes of its format's header behind
\* it, the latter alone, and the zeros of a deleted file.
Titled(len, own) ==
  [a \in Addrs |->
    LET p == Offset(file.sector, a)
    IN IF p >= HeadLen + own THEN flash[a]
       ELSE Program(flash[a], IF p = 0 THEN Header(file.index, len) ELSE Data(file.index, p))]
Formatted ==
  [a \in Addrs |->
    LET p == Offset(file.sector, a)
    IN IF p \in HeadLen .. HeadLen + head - 1 THEN Program(flash[a], Data(file.index, p))
       ELSE flash[a]]
Untitled ==
  [a \in Addrs |-> IF Offset(file.sector, a) < HeadLen THEN Zero ELSE flash[a]]

\* The room recfile_write finds for b more bytes: the loop erases sector after
\* sector until it is back at the file's first one.  A file in front of the
\* partition has none.
Room(b) == IF file.rw_p + b <= file.len \/ file.len = 0 THEN file.len
           ELSE LET want == RoundUp(file.rw_p + b) IN IF want > Size THEN Size ELSE want
Fits(b) == IF file.rw_p + b > Room(b) THEN Room(b) - file.rw_p ELSE b
-----------------------------------------------------------------------------
\* nor_fs_mount, nor_fs_unmount

Mount ==
  /\ ~mounted
  /\ mounted' = TRUE
  /\ \E found \in SUBSET Headers :
       /\ Seen(found)
       /\ \/ found = {} /\ pfs' = EmptyPfs
          \/ \E s \in found : Newest(s, found) /\ pfs' = FoundPfs(s, found)
  /\ last' = pfs'.index
  /\ UNCHANGED <<flash, mode, file, head, astray>>

\* The handle survives its file system.
ForgetKeepsHandle == /\ mounted' = FALSE /\ pfs' = NoPfs /\ last' = 0
                     /\ UNCHANGED <<mode, file, head, astray>>

\* What is in RAM is gone.
Forget == /\ mounted' = FALSE /\ pfs' = NoPfs /\ last' = 0
          /\ mode' = "none" /\ file' = NoFile /\ head' = 0
          /\ UNCHANGED astray

Unmount == mounted /\ mode = "none" /\ Forget /\ UNCHANGED flash

-----------------------------------------------------------------------------
\* A recording: nor_fs_open "w", nor_fs_write, nor_fs_close

\* After a recording that was not found, pfs.sector is 0, in front of the
\* partition: the next one is begun there, with no room, as number 1.
Create(own) ==
  /\ mounted /\ mode = "none" /\ pfs.index < MaxIndex
  /\ LET s == Wrap(CheckHead(pfs.sector))
     IN /\ flash' = Erase(s)
        /\ file' = [index |-> pfs.index + 1, sector |-> s,
                    len |-> IF s \in Starts THEN SectorLen ELSE 0, rw_p |-> HeadLen]
        /\ astray' = (astray \/ s \notin Starts)
  /\ last' = pfs.index + 1
  /\ mode' = "write"
  /\ head' = own
  /\ UNCHANGED <<mounted, pfs>>

Write(b) ==
  /\ mode = "write" /\ file.rw_p <= Room(b)
  /\ flash' = Written(Room(b), Fits(b))
  /\ file' = [file EXCEPT !.len = Room(b), !.rw_p = @ + Fits(b)]
  /\ UNCHANGED <<mounted, pfs, last, mode, head, astray>>

\* The position is beyond the room: their difference, a u16, wraps to nearly
\* 64 kB, and that many bytes are programmed from a buffer of 512.  Nothing is
\* said of what follows.
Spill(b) ==
  /\ mode = "write" /\ file.rw_p > Room(b)
  /\ mode' = "spilt"
  /\ UNCHANGED <<flash, mounted, pfs, last, file, head, astray>>

\* updata_wav_head_info, every five seconds of a WAV recording: back to the
\* front, the format's header, and to where fpos was, which counts the file's
\* own header and the seek counts it again.
UpdateHead ==
  /\ mode = "write" /\ head > 0 /\ file.len > 0
  /\ flash' = Formatted
  /\ file' = [file EXCEPT !.rw_p = HeadLen + IF @ >= file.len THEN head ELSE @]
  /\ astray' = TRUE
  /\ UNCHANGED <<mounted, pfs, last, mode, head>>

\* Nothing reads a handle that is closed before the next open fills it anew.
Shut == mode' = "none" /\ file' = NoFile /\ head' = 0

\* Only the number of the newest recording is kept.
CloseAtKeepsSector(p, own) ==
  /\ flash' = Titled(p, own)
  /\ pfs' = [pfs EXCEPT !.index = file.index]
  /\ Shut
  /\ UNCHANGED <<mounted, last>>

\* close_nor_recfile with the position at p, after `own' bytes of the format's
\* header.
CloseAt(p, own) ==
  /\ flash' = Titled(p, own)
  /\ pfs' = [pfs EXCEPT !.index = file.index, !.sector = file.sector]
  /\ Shut
  /\ UNCHANGED <<mounted, last>>

\* enc_write_file_close: the length is what fpos gave, which counts the file's
\* header, less the cut.  The format's header is rewritten unless a write has
\* failed.  The seek to the end adds the file's header to the length again,
\* and is refused at the end of the room: the recording then ends where the
\* position is, behind the format's header if that was rewritten.
End(len, own) ==
  IF len < file.len THEN len + HeadLen ELSE IF own > 0 THEN HeadLen + own ELSE file.rw_p

SeekEndAndClose(cut, own) ==
  /\ mode = "write" /\ file.rw_p > cut + MinLen /\ own \in {0, head}
  /\ CloseAt(End(file.rw_p - cut, own), own)
  /\ astray' = (astray \/ End(file.rw_p - cut, own) > file.len)

\* fdelete, of a recording that is too short: the file system has no such
\* operation, so it is only forgotten.
Abandon ==
  /\ mode = "write" /\ \E cut \in Cuts : file.rw_p <= cut + MinLen
  /\ Shut
  /\ UNCHANGED <<flash, mounted, pfs, last, astray>>
-----------------------------------------------------------------------------
\* Playing: nor_fs_open "r", nor_fs_read, nor_fs_seek, nor_fs_close, nor_fs_delete

OpenRead ==
  /\ mounted /\ mode = "none" /\ last # 0
  /\ \/ /\ \E k \in Hits(last) :
             file' = [index |-> last, sector |-> Walk[k], len |-> flash[Walk[k]].at, rw_p |-> HeadLen]
        /\ mode' = "read"
     \/ /\ Hits(last) = {} /\ WalkEnds
        /\ file' = [NoFile EXCEPT !.rw_p = HeadLen]
        /\ mode' = "read"
     \/ /\ Hits(last) = {} /\ ~WalkEnds
        /\ mode' = "search" /\ UNCHANGED file
  /\ UNCHANGED <<flash, mounted, pfs, last, head, astray>>

Read(b) ==
  /\ mode = "read"
  /\ file' = [file EXCEPT !.rw_p = IF @ + b < file.len THEN @ + b ELSE Atleast(@, file.len)]
  /\ UNCHANGED <<flash, mounted, pfs, last, mode, head, astray>>

SeekSet(off) ==
  /\ mode = "read" /\ off >= 0
  /\ file' = [file EXCEPT !.rw_p = IF off >= file.len THEN @ ELSE off + HeadLen]
  /\ UNCHANGED <<flash, mounted, pfs, last, mode, head, astray>>

\* A relative seek adds the position twice.
SeekCur(off) ==
  /\ mode = "read"
  /\ file' = [file EXCEPT !.rw_p = IF off + @ \in 0 .. file.len - 1 THEN @ + (off + @) ELSE @]
  /\ UNCHANGED <<flash, mounted, pfs, last, mode, head, astray>>

CloseRead ==
  /\ mode = "read"
  /\ pfs' = [pfs EXCEPT !.index = file.index, !.sector = file.sector]
  /\ Shut
  /\ UNCHANGED <<flash, mounted, last, astray>>

\* The zeros of a recording that was not found go in front of the partition.
Delete ==
  /\ mode = "read"
  /\ flash' = IF file.sector \in Starts THEN Untitled ELSE flash
  /\ UNCHANGED <<mounted, pfs, last, mode, file, head, astray>>

\* clear_norfs_allfile, which nothing in the repository calls: power does not
\* go in the middle of it here.
ClearAll ==
  /\ mounted /\ mode = "none"
  /\ flash' = [a \in Addrs |-> IF \E s \in Starts : a \in s .. s + HeadLen - 1 THEN Zero
                               ELSE flash[a]]
  /\ pfs' = EmptyPfs
  /\ UNCHANGED <<mounted, last, mode, file, head, astray>>
-----------------------------------------------------------------------------
\* Power goes, between two operations or within a write: some of its sectors
\* are erased, and if all are, some of its bytes programmed.

PowerLoss == mounted /\ mode # "spilt" /\ Forget /\ UNCHANGED flash

TornWrite(b) ==
  /\ mode = "write" /\ file.rw_p <= Room(b)
  /\ \/ \E upto \in file.len .. Room(b) : /\ upto % SectorLen = 0
                                          /\ flash' = Written(upto, 0)
     \/ \E n \in 0 .. Fits(b) : flash' = Written(Room(b), n)
  /\ Forget
-----------------------------------------------------------------------------
Init == /\ flash = [a \in Addrs |-> Blank]
        /\ mounted = FALSE /\ pfs = NoPfs /\ last = 0
        /\ mode = "none" /\ file = NoFile /\ head = 0
        /\ astray = FALSE

Next == \/ Mount \/ Unmount
        \/ \E own \in {0, WavLen} : Create(own)
        \/ \E b \in Sizes : Write(b) \/ Spill(b) \/ TornWrite(b) \/ Read(b)
        \/ UpdateHead
        \/ \E cut \in Cuts, own \in {0, WavLen} : SeekEndAndClose(cut, own)
        \/ Abandon
        \/ OpenRead \/ CloseRead \/ Delete \/ ClearAll
        \/ PowerLoss
        \/ \E off \in Offsets : SeekSet(off) \/ SeekCur(off)

Spec == Init /\ [][Next]_vars
-----------------------------------------------------------------------------
Cell == [is : {"blank", "zero", "mixed", "data", "head"}, index : Nat, at : Nat]

TypeOK ==
  /\ flash \in [Addrs -> Cell]
  /\ mounted \in BOOLEAN
  /\ pfs \in [index : Nat, sector : Starts \cup {0}, total : Nat]
  /\ last \in Nat
  /\ mode \in {"none", "write", "read", "search", "spilt"}
  /\ file \in [index : Nat, sector : Starts \cup {0}, len : Nat, rw_p : Nat]
  /\ head \in {0, WavLen}
  /\ astray \in BOOLEAN
  /\ (mode # "none") => mounted

\* A recording that a scan can find is whole: from behind its header to its
\* length it holds what was written to it, over the end of the partition too,
\* whatever was recorded, given up or cut off by a loss of power since.  Its
\* first WavLen bytes are unwritten when they are for a format's header that
\* was not rewritten, and the recorder's seek before its close adds up to
\* HeadLen unwritten bytes.  Not so once a recording went astray.
RecordingsAreWhole ==
  \A s \in Headers : \A p \in HeadLen .. flash[s].at - 1 :
    \/ flash[Wrap(s + p)] = Data(flash[s].index, p)
    \/ /\ flash[Wrap(s + p)] = Blank
       /\ p < HeadLen + WavLen \/ p >= flash[s].at - HeadLen

\* No byte is programmed that was not erased before.
ProgramsErased == \A a \in Addrs : flash[a] # Mixed

\* What is on the chip is as it was written, until a recording goes astray.
FlashIsSound == ~astray => RecordingsAreWhole /\ ProgramsErased

\* The walk of recfile_index_scan comes back to its beginning, which is how it
\* ends when it does not find the number, exactly when it began in the
\* partition: after a recording that was not found, the next search for one
\* that is not there never ends.  Until a recording goes astray.
SearchEnds == mounted /\ ~astray => (WalkEnds <=> pfs.sector # 0)

\* A mount finds the newest recording and counts all of them, until a recording
\* goes astray.
MountFindsTheNewest ==
  [][~mounted /\ mounted' /\ ~astray =>
       /\ pfs'.total = Cardinality(Headers)
       /\ Headers # {} => /\ pfs'.sector \in Headers
                          /\ \A s \in Headers : flash[s].index <= pfs'.index]_vars

\* The index in RAM agrees with the flash: no recording has a larger number,
\* and a mount at any time would give the same newest recording, unless that
\* was deleted, so that the next one goes to the same place, with the same
\* number, with a loss of power before it or without.  The exception is a
\* search that failed: its close leaves the number 0 in RAM, and then the
\* recording that was searched for is not on the chip.  Until a recording goes
\* astray, as the next one then does.
RamAgrees == mounted /\ ~astray =>
  \/ /\ pfs.sector = 0 /\ pfs.index = 0
     /\ \A s \in Headers : flash[s].index # last
  \/ /\ \A s \in Headers : flash[s].index <= pfs.index
     /\ Valid(pfs.sector) =>
          /\ flash[pfs.sector].index = pfs.index
          /\ \E found \in SUBSET Headers :
               Seen(found) /\ pfs.sector \in found /\ Newest(pfs.sector, found)

\* Recordings leave oldest first (RecShelf), until one goes astray.
Shelf == INSTANCE RecShelf WITH shelf <- {flash[s].index : s \in Headers}
OldestGoFirst == Shelf!ShelfSpec
=============================================================================
