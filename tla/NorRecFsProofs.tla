-------------------------- MODULE NorRecFsProofs --------------------------
(***************************************************************************)
(* Proofs about the recorder file system, for every partition, every       *)
(* sector and header length and any number of recordings.                  *)
(***************************************************************************)
EXTENDS NorRecFs, FiniteSetTheorems, WellFoundedInduction, TLAPS

-----------------------------------------------------------------------------
\* Addresses on the ring

LEMMA Consts == /\ SectorLen \in Nat /\ SectorLen > 0
                /\ First \in Nat /\ First > 0 /\ Last \in Nat /\ First <= Last
                /\ HeadLen \in Nat /\ 1 <= HeadLen /\ HeadLen <= SectorLen
                /\ MaxIndex \in Nat
                /\ Sizes \subseteq Nat /\ Offsets \subseteq Int
                /\ Cuts \subseteq Nat /\ MinLen \in Nat
                /\ WavLen \in Nat /\ HeadLen + WavLen <= SectorLen
                /\ HeadLen <= MinLen /\ WavLen <= MinLen
BY FlashAssumption

LEMMA TimesLe == ASSUME NEW m \in Nat, NEW n \in Nat, NEW l \in Nat, m <= n
                 PROVE  m * l <= n * l /\ m * l \in Nat
OBVIOUS

LEMMA TimesLt == ASSUME NEW m \in Nat, NEW n \in Nat, NEW l \in Nat, m < n
                 PROVE  m * l + l <= n * l
<1>1. m * l + l = (m + 1) * l
  OBVIOUS
<1>2. (m + 1) * l <= n * l
  BY TimesLe, m + 1 \in Nat, m + 1 <= n
<1> QED BY <1>1, <1>2

LEMMA TimesMinus == ASSUME NEW m \in Int, NEW n \in Int, NEW l \in Int,
                           NEW a, NEW b, a = m * l, b = n * l
                    PROVE  a - b = (m - n) * l
OBVIOUS

\* The partition and its size.
LEMMA Bounds == /\ Lo \in Nat /\ Hi \in Nat /\ Size \in Nat
                /\ 0 < Lo /\ Lo + SectorLen <= Hi /\ Size = Hi - Lo
                /\ Size = (Last + 1 - First) * SectorLen
                /\ Addrs \subseteq Nat
<1>1. Lo \in Nat /\ Hi \in Nat /\ 0 < Lo
  BY Consts DEF Lo, Hi
<1>2. Lo + SectorLen <= Hi
  BY TimesLt, Consts, First < Last + 1 DEF Lo, Hi
<1>3. Size = (Last + 1 - First) * SectorLen
  BY Consts DEF Size, Lo, Hi
<1> QED BY <1>1, <1>2, <1>3, Consts DEF Size, Addrs

\* A sector lies in the partition, and behind every sector before it.
LEMMA Sectors == \A s \in Starts : /\ s \in Nat /\ s \in Addrs
                                   /\ Lo <= s /\ s + SectorLen <= Hi
                                   /\ \A t \in Starts : s < t => s + SectorLen <= t
<1> SUFFICES ASSUME NEW s \in Starts
             PROVE  /\ s \in Nat /\ s \in Addrs /\ Lo <= s /\ s + SectorLen <= Hi
                    /\ \A t \in Starts : s < t => s + SectorLen <= t
  OBVIOUS
<1>1. PICK k \in First .. Last : s = k * SectorLen
  BY DEF Starts
<1>2. k \in Nat /\ First <= k /\ k < Last + 1
  BY Consts
<1>3. Lo <= s /\ s \in Nat
  BY <1>1, <1>2, TimesLe, Consts DEF Lo
<1>4. s + SectorLen <= Hi
  BY <1>1, <1>2, TimesLt, Consts DEF Hi
<1>5. ASSUME NEW t \in Starts, s < t PROVE s + SectorLen <= t
  <2>1. PICK j \in First .. Last : t = j * SectorLen
    BY DEF Starts
  <2>2. j \in Nat
    BY Consts
  <2>3. CASE j <= k
    BY <2>1, <2>2, <2>3, <1>1, <1>2, <1>5, TimesLe, Consts
  <2>4. CASE k < j
    BY <2>1, <2>2, <2>4, <1>1, <1>2, TimesLt, Consts
  <2> QED BY <2>2, <2>3, <2>4, <1>2
<1> QED BY <1>3, <1>4, <1>5, Bounds, Consts DEF Addrs

\* A length that is a number of whole sectors.
Whole(n) == \E k \in Nat : n = k * SectorLen

LEMMA Rounding == \A n \in Nat : /\ RoundUp(n) \in Nat /\ n <= RoundUp(n)
                                 /\ Whole(RoundUp(n))
                                 /\ \A m \in Nat : Whole(m) /\ n <= m => RoundUp(n) <= m
<1> SUFFICES ASSUME NEW n \in Nat
             PROVE  /\ RoundUp(n) \in Nat /\ n <= RoundUp(n) /\ Whole(RoundUp(n))
                    /\ \A m \in Nat : Whole(m) /\ n <= m => RoundUp(n) <= m
  OBVIOUS
<1> DEFINE x == n + SectorLen - 1
           q == x \div SectorLen
<1>1. x \in Nat /\ q \in Nat
  BY Consts
<1>2. q * SectorLen <= x /\ x < q * SectorLen + SectorLen
  BY <1>1, Consts
<1>3. RoundUp(n) = q * SectorLen /\ q * SectorLen \in Nat
  BY <1>1, Consts DEF RoundUp
<1>4. ASSUME NEW m \in Nat, NEW k \in Nat, m = k * SectorLen, n <= m
      PROVE  RoundUp(n) <= m
  <2>1. CASE q <= k
    BY <2>1, <1>1, <1>3, <1>4, TimesLe, Consts
  <2>2. CASE k < q
    <3>1. k * SectorLen + SectorLen <= q * SectorLen
      BY <2>2, <1>1, TimesLt, Consts
    <3> QED BY <3>1, <1>1, <1>2, <1>3, <1>4, Consts
  <2> QED BY <2>1, <2>2, <1>1, <1>4
<1> QED BY <1>1, <1>2, <1>3, <1>4, Consts DEF Whole

\* Where an address is on the ring, seen from the beginning of a sector.
LEMMA OffsetRange == \A s \in Starts, a \in Addrs :
                    /\ Offset(s, a) \in Nat /\ Offset(s, a) < Size
                    /\ (Offset(s, a) < SectorLen) = (a \in SectorAt(s))
<1> SUFFICES ASSUME NEW s \in Starts, NEW a \in Addrs
             PROVE  /\ Offset(s, a) \in Nat /\ Offset(s, a) < Size
                    /\ (Offset(s, a) < SectorLen) = (a \in SectorAt(s))
  OBVIOUS
<1>1. a \in Nat /\ Lo <= a /\ a < Hi
  BY Bounds DEF Addrs
<1>2. s \in Nat /\ Lo <= s /\ s + SectorLen <= Hi
  BY Sectors
<1> QED BY <1>1, <1>2, Bounds, Consts DEF Offset, SectorAt

\* Two sectors are at least one sector apart, both ways round.
LEMMA SectorsApart == \A s, t \in Starts : s # t => /\ Offset(s, t) >= SectorLen
                                            /\ Offset(s, t) = Size - Offset(t, s)
<1> SUFFICES ASSUME NEW s \in Starts, NEW t \in Starts, s # t
             PROVE  /\ Offset(s, t) >= SectorLen
                    /\ Offset(s, t) = Size - Offset(t, s)
  OBVIOUS
<1>1. /\ s \in Nat /\ Lo <= s /\ s + SectorLen <= Hi
      /\ t \in Nat /\ Lo <= t /\ t + SectorLen <= Hi
      /\ (s < t => s + SectorLen <= t) /\ (t < s => t + SectorLen <= s)
  BY Sectors
<1> QED BY <1>1, Bounds, Consts DEF Offset

\* A sector and a whole number of sectors further round is a sector.
LEMMA RoundTheRing == ASSUME NEW n \in Starts, NEW r \in Nat, Whole(r), r <= Size
                      PROVE  Wrap(n + r) \in Starts
<1>1. PICK k \in First .. Last : n = k * SectorLen
  BY DEF Starts
<1>2. PICK j \in Nat : r = j * SectorLen
  BY DEF Whole
<1>3. k \in Nat /\ First <= k /\ k <= Last
  BY <1>1, Consts
<1>4. n + r = (k + j) * SectorLen
  BY <1>1, <1>2, <1>3, Consts
<1>5. CASE k + j <= Last
  <2>1. n + r < Hi
    BY <1>3, <1>4, <1>5, TimesLt, Consts DEF Hi
  <2>2. Wrap(n + r) = (k + j) * SectorLen
    BY <1>4, <2>1, Bounds, Consts DEF Wrap
  <2>3. k + j \in First .. Last
    BY <1>3, <1>5, Consts
  <2> QED BY <2>2, <2>3 DEF Starts
<1>6. CASE Last + 1 <= k + j
  <2> DEFINE m == k + j - (Last + 1 - First)
  <2>1. Hi <= n + r
    BY <1>3, <1>4, <1>6, TimesLe, Consts DEF Hi
  <2>2. m \in Nat /\ First <= m
    BY <1>3, <1>6, Consts
  <2>3. n + r - Size = m * SectorLen
    <3>1. PICK x \in Int : x = k + j
      BY <1>3, Consts
    <3>2. PICK y \in Int : y = Last + 1 - First
      BY Consts
    <3>3. n + r = x * SectorLen /\ Size = y * SectorLen
      BY <1>4, <3>1, <3>2, Bounds
    <3>4. PICK d : d = n + r
      OBVIOUS
    <3>5. d - Size = (x - y) * SectorLen
      BY <3>1, <3>2, <3>3, <3>4, TimesMinus, Consts
    <3>6. m = x - y
      BY <3>1, <3>2
    <3> HIDE DEF m
    <3> QED BY <3>4, <3>5, <3>6, <2>2, <1>1, <1>3, Bounds, Consts
  <2>4. m <= Last
    <3> SUFFICES ASSUME k < m PROVE FALSE
      BY <1>3, <2>2, Consts
    <3>1. n < n + r - Size
      BY <1>1, <1>3, <2>2, <2>3, TimesLt, Consts
    <3> QED BY <3>1, <1>1, <1>3, Bounds, Consts
  <2>5. Wrap(n + r) = m * SectorLen
    BY <1>4, <2>1, <2>3, Bounds, Consts, TimesLe, k + j \in Nat DEF Wrap
  <2>6. m \in First .. Last
    BY <2>2, <2>4, Consts
  <2> QED BY <2>5, <2>6 DEF Starts
<1> QED BY <1>3, <1>5, <1>6, Consts

-----------------------------------------------------------------------------
\* Types

Places == Starts \cup {0}
FileType == [index : Nat, sector : Places, len : Nat, rw_p : Nat]
PfsType == [index : Nat, sector : Places, total : Nat]

LEMMA Cells == /\ Blank \in Cell /\ Zero \in Cell /\ Mixed \in Cell
               /\ \A i \in Nat, p \in Nat : Data(i, p) \in Cell /\ Header(i, p) \in Cell
               /\ Blank # Mixed /\ Zero # Mixed /\ Blank # Zero
               /\ \A i, p : Data(i, p) # Mixed /\ Header(i, p) # Mixed /\ Data(i, p) # Blank
BY DEF Cell, Blank, Zero, Mixed, Data, Header

LEMMA HeaderTypes == ASSUME TypeOK, NEW s, Valid(s)
                     PROVE  /\ s \in Starts /\ s \in Nat /\ s \in Addrs
                            /\ flash[s].at \in Nat /\ flash[s].index \in Nat
                            /\ flash[s].at <= Size
BY Sectors DEF TypeOK, Valid, Cell

LEMMA PlacesAre == /\ \A s \in Places, a \in Addrs : s \in Nat /\ Offset(s, a) \in Nat
                   /\ 0 \notin Starts /\ 0 \in Places /\ Lo \in Starts
<1>1. \A s \in Starts, a \in Addrs : s \in Nat /\ s # 0 /\ Offset(s, a) \in Nat
  BY Sectors, OffsetRange, Bounds
<1>2. \A a \in Addrs : Offset(0, a) \in Nat
  BY Bounds DEF Offset
<1>3. Lo \in Starts /\ 0 \notin Starts
  BY Sectors, Bounds, Consts DEF Lo, Starts
<1> QED BY <1>1, <1>2, <1>3 DEF Places

\* Where a recording is begun: on a sector, or in front of the partition.
LEMMA PlaceType == ASSUME TypeOK, NEW s \in Places
                   PROVE  Wrap(CheckHead(s)) \in Places
<1>1. CASE Valid(s)
  <2>1. /\ s \in Starts /\ flash[s].at \in Nat /\ flash[s].at <= Size
    BY <1>1, HeaderTypes
  <2>2. Whole(Size) /\ Size \in Nat
    BY Bounds, Consts, Last + 1 - First \in Nat DEF Whole
  <2>3. /\ RoundUp(flash[s].at) \in Nat /\ Whole(RoundUp(flash[s].at))
        /\ RoundUp(flash[s].at) <= Size
    BY <2>1, <2>2, Rounding
  <2> QED BY <1>1, <2>1, <2>3, RoundTheRing DEF CheckHead, Places
<1>2. CASE ~Valid(s)
  <2>1. s < Hi /\ s \in Nat
    BY Sectors, Bounds, Consts DEF Places
  <2> QED BY <1>2, <2>1, Bounds DEF CheckHead, Wrap
<1> QED BY <1>1, <1>2

LEMMA RoomType == ASSUME TypeOK, NEW b \in Sizes
                  PROVE  /\ Room(b) \in Nat
                         /\ file.rw_p <= Room(b) => Fits(b) \in Nat
<1>1. b \in Nat /\ file.len \in Nat /\ file.rw_p \in Nat /\ file.rw_p + b \in Nat
  BY Consts DEF TypeOK
<1>2. RoundUp(file.rw_p + b) \in Nat /\ Size \in Nat
  BY <1>1, Rounding, Bounds
<1>3. Room(b) \in Nat
  BY <1>1, <1>2 DEF Room
<1> QED BY <1>1, <1>3 DEF Fits

LEMMA HeadType == TypeOK => head \in Nat /\ HeadLen + head \in Nat /\ HeadLen + head <= SectorLen
BY Consts DEF TypeOK

LEMMA WrittenType == ASSUME TypeOK, NEW upto, NEW n
                     PROVE  Written(upto, n) \in [Addrs -> Cell]
<1> SUFFICES ASSUME NEW a \in Addrs PROVE Written(upto, n)[a] \in Cell
  BY DEF Written
<1> DEFINE p == Offset(file.sector, a)
           old == IF p \in file.len .. upto - 1 THEN Blank ELSE flash[a]
<1>1. /\ p \in Nat /\ file.index \in Nat /\ flash[a] \in Cell
  BY PlacesAre DEF TypeOK, Places
<1>2. old \in Cell /\ Program(old, Data(file.index, p)) \in Cell
  BY <1>1, Cells DEF Program
<1>3. \/ Written(upto, n)[a] = old
      \/ Written(upto, n)[a] = Program(old, Data(file.index, p))
  BY DEF Written
<1> QED BY <1>2, <1>3

LEMMA TitledType == ASSUME TypeOK, NEW len \in Nat, NEW own
                    PROVE  /\ Titled(len, own) \in [Addrs -> Cell]
                           /\ Formatted \in [Addrs -> Cell]
<1> SUFFICES ASSUME NEW a \in Addrs
             PROVE  Titled(len, own)[a] \in Cell /\ Formatted[a] \in Cell
  BY DEF Titled, Formatted
<1> DEFINE p == Offset(file.sector, a)
<1>1. /\ p \in Nat /\ file.index \in Nat /\ flash[a] \in Cell
  BY PlacesAre DEF TypeOK, Places
<1>2. /\ Data(file.index, p) \in Cell /\ Header(file.index, len) \in Cell
      /\ \A new \in Cell : Program(flash[a], new) \in Cell
  BY <1>1, Cells DEF Program
<1>3. Titled(len, own)[a] \in {flash[a], Program(flash[a], Header(file.index, len)),
                               Program(flash[a], Data(file.index, p))}
  BY DEF Titled
<1>4. Formatted[a] \in {flash[a], Program(flash[a], Data(file.index, p))}
  BY DEF Formatted
<1> QED BY <1>1, <1>2, <1>3, <1>4

LEMMA HeadersFinite == IsFiniteSet(Headers)
<1>1. IsFiniteSet(Lo .. Hi)
  BY FS_Interval, Bounds
<1>2. Starts \subseteq Lo .. Hi
  BY Sectors, Bounds, Consts
<1> QED BY <1>1, <1>2, FS_Subset DEF Headers

LEMMA InitType == Init => TypeOK
<1> SUFFICES ASSUME Init PROVE TypeOK
  OBVIOUS
<1>1. flash \in [Addrs -> Cell]
  BY Cells DEF Init
<1> QED BY <1>1 DEF Init, TypeOK, NoFile, NoPfs

LEMMA MountType == TypeOK /\ Mount => TypeOK'
<1> SUFFICES ASSUME TypeOK, Mount PROVE TypeOK'
  OBVIOUS
<1>1. pfs' \in PfsType
  <2>1. PICK found \in SUBSET Headers :
          \/ found = {} /\ pfs' = EmptyPfs
          \/ \E s \in found : pfs' = FoundPfs(s, found)
    BY DEF Mount
  <2>2. CASE pfs' = EmptyPfs
    BY <2>2, PlacesAre DEF EmptyPfs, Places, PfsType
  <2>3. ASSUME NEW s \in found, pfs' = FoundPfs(s, found)
        PROVE  pfs' \in PfsType
    <3>1. IsFiniteSet(found)
      BY HeadersFinite, FS_Subset
    <3>2. Cardinality(found) \in Nat
      BY <3>1, FS_CardinalityType
    <3>3. Valid(s)
      BY DEF Headers
    <3> QED BY <2>3, <3>2, <3>3, HeaderTypes DEF FoundPfs, Places, PfsType
  <2> QED BY <2>1, <2>2, <2>3
<1>2. pfs'.index \in Nat
  BY <1>1 DEF PfsType
<1> QED BY <1>1, <1>2 DEF TypeOK, Mount, PfsType, Places

\* What is in RAM is lost.
LEMMA ForgetType == ASSUME TypeOK, Forget, flash' \in [Addrs -> Cell] PROVE TypeOK'
BY DEF Forget, TypeOK, NoPfs, NoFile

LEMMA EraseType == TypeOK => \A s : Erase(s) \in [Addrs -> Cell]
BY Cells DEF TypeOK, Erase

LEMMA CreateType == ASSUME TypeOK, NEW own \in {0, WavLen}, Create(own) PROVE TypeOK'
<1> DEFINE s == Wrap(CheckHead(pfs.sector))
<1>1. /\ flash' = Erase(s) /\ mode' = "write" /\ last' = pfs.index + 1
      /\ file' = [index |-> pfs.index + 1, sector |-> s,
                  len |-> IF s \in Starts THEN SectorLen ELSE 0, rw_p |-> HeadLen]
      /\ mounted /\ UNCHANGED <<mounted, pfs>> /\ head' = own
      /\ astray' = (astray \/ s \notin Starts)
  BY DEF Create
<1>2. s \in Places
  BY PlaceType DEF TypeOK, Places
<1> HIDE DEF s
<1>3. pfs.index + 1 \in Nat
  BY DEF TypeOK
<1>4. file' \in FileType
  BY <1>1, <1>2, <1>3, Consts DEF FileType
<1>5. flash' \in [Addrs -> Cell]
  BY <1>1, EraseType
<1>6. astray' \in BOOLEAN
  BY <1>1
<1> QED BY <1>1, <1>3, <1>4, <1>5, <1>6 DEF TypeOK, FileType, Places

LEMMA WriteType == ASSUME TypeOK, NEW b \in Sizes, Write(b) \/ Spill(b) PROVE TypeOK'
<1>1. CASE Write(b)
  <2>1. /\ mode = "write" /\ mode' = mode
        /\ flash' = Written(Room(b), Fits(b))
        /\ file' = [file EXCEPT !.len = Room(b), !.rw_p = @ + Fits(b)]
        /\ UNCHANGED <<mounted, pfs, last, head, astray>>
    BY <1>1 DEF Write
  <2>2. Room(b) \in Nat /\ Fits(b) \in Nat
    BY <1>1, RoomType DEF Write
  <2>3. file \in FileType /\ file.rw_p + Fits(b) \in Nat
    BY <2>2 DEF TypeOK, FileType, Places
  <2> HIDE DEF Room, Fits
  <2>4. file' \in FileType
    BY <2>1, <2>2, <2>3 DEF FileType
  <2>5. flash' \in [Addrs -> Cell]
    BY <2>1, WrittenType
  <2> QED BY <2>1, <2>4, <2>5 DEF TypeOK, FileType, Places
<1>2. CASE Spill(b)
  BY <1>2 DEF Spill, TypeOK
<1> QED BY <1>1, <1>2

LEMMA UpdateHeadType == TypeOK /\ UpdateHead => TypeOK'
<1> SUFFICES ASSUME TypeOK, UpdateHead PROVE TypeOK'
  OBVIOUS
<1>1. /\ mode' = mode /\ flash' = Formatted /\ astray'
      /\ file' = [file EXCEPT !.rw_p = HeadLen + IF @ >= file.len THEN head ELSE @]
      /\ UNCHANGED <<mounted, pfs, last, head>>
  BY DEF UpdateHead
<1>2. file \in FileType /\ head \in Nat /\ file.rw_p \in Nat /\ file.len \in Nat
  BY HeadType DEF TypeOK, FileType, Places
<1>3. \E n \in Nat : file' = [file EXCEPT !.rw_p = n]
  <2>1. HeadLen + head \in Nat /\ HeadLen + file.rw_p \in Nat
    BY <1>2, Consts
  <2>2. file' = IF file.rw_p >= file.len THEN [file EXCEPT !.rw_p = HeadLen + head]
                ELSE [file EXCEPT !.rw_p = HeadLen + file.rw_p]
    BY <1>1
  <2> QED BY <2>1, <2>2
<1>4. file' \in FileType
  BY <1>2, <1>3 DEF FileType
<1>5. flash' \in [Addrs -> Cell]
  BY <1>1, TitledType
<1>6. astray' \in BOOLEAN
  BY DEF UpdateHead
<1> QED BY <1>1, <1>4, <1>5, <1>6 DEF TypeOK, FileType, Places

\* Where a close leaves the end of a recording.
LEMMA EndType == ASSUME TypeOK, NEW cut \in Cuts, NEW own \in {0, WavLen}, SeekEndAndClose(cut, own)
                 PROVE  End(file.rw_p - cut, own) \in Nat
<1>1. /\ file.rw_p \in Nat /\ file.len \in Nat /\ cut \in Nat /\ own \in Nat
      /\ HeadLen \in Nat /\ MinLen \in Nat
  BY Consts DEF TypeOK
<1>2. file.rw_p > cut + MinLen
  BY DEF SeekEndAndClose
<1>3. file.rw_p - cut \in Nat
  BY <1>1, <1>2
<1> QED BY <1>1, <1>3 DEF End

LEMMA CloseType == ASSUME TypeOK, NEW cut \in Cuts, NEW own \in {0, WavLen}, SeekEndAndClose(cut, own)
                   PROVE  TypeOK'
<1>1. PICK p \in Nat : p = End(file.rw_p - cut, own)
  BY EndType
<1>2. /\ CloseAt(p, own) /\ astray' = (astray \/ p > file.len)
  BY <1>1 DEF SeekEndAndClose
<1>3. flash' \in [Addrs -> Cell]
  BY <1>2, TitledType DEF CloseAt
<1>4. pfs' \in PfsType
  BY <1>2 DEF CloseAt, TypeOK, PfsType, Places
<1>5. astray' \in BOOLEAN
  BY <1>2
<1> QED BY <1>2, <1>3, <1>4, <1>5 DEF CloseAt, Shut, NoFile, TypeOK, PfsType, Places

LEMMA OpenReadType == TypeOK /\ OpenRead => TypeOK'
<1> SUFFICES ASSUME TypeOK, OpenRead PROVE TypeOK'
  OBVIOUS
<1>1. file' \in FileType
  <2>1. CASE \E k \in Hits(last) :
               file' = [index |-> last, sector |-> Walk[k], len |-> flash[Walk[k]].at,
                        rw_p |-> HeadLen]
    <3>1. PICK k \in Hits(last) :
               file' = [index |-> last, sector |-> Walk[k], len |-> flash[Walk[k]].at,
                        rw_p |-> HeadLen]
      BY <2>1
    <3>2. Valid(Walk[k])
      BY DEF Hits, Hit
    <3> QED BY <3>1, <3>2, HeaderTypes, Consts DEF TypeOK, FileType, Places
  <2>2. CASE file' = [NoFile EXCEPT !.rw_p = HeadLen]
    BY <2>2, Consts DEF NoFile, FileType, Places
  <2>3. CASE UNCHANGED file
    BY <2>3 DEF TypeOK, FileType, Places
  <2> QED BY <2>1, <2>2, <2>3 DEF OpenRead
<1>2. mode' \in {"read", "search"} /\ mounted /\ UNCHANGED <<flash, mounted, pfs, last, head, astray>>
  BY DEF OpenRead
<1> QED BY <1>1, <1>2 DEF TypeOK, FileType, Places

LEMMA ReaderType == ASSUME TypeOK,
                           \/ \E b \in Sizes : Read(b)
                           \/ \E off \in Offsets : SeekSet(off) \/ SeekCur(off)
                    PROVE  TypeOK'
<1>1. mode = "read" /\ UNCHANGED <<flash, mounted, pfs, last, mode, head, astray>>
  BY DEF Read, SeekSet, SeekCur
<1>2. file \in FileType
  BY DEF TypeOK, FileType, Places
<1>3. file' \in FileType
  <2>1. ASSUME NEW b \in Sizes, Read(b) PROVE \E n \in Nat : file' = [file EXCEPT !.rw_p = n]
    <3>1. b \in Nat
      BY Consts
    <3> QED BY <2>1, <3>1, <1>2 DEF Read, Atleast, FileType
  <2>2. ASSUME NEW off \in Offsets, SeekSet(off) \/ SeekCur(off)
        PROVE  \E n \in Nat : file' = [file EXCEPT !.rw_p = n]
    <3>1. off \in Int
      BY Consts
    <3> QED BY <2>2, <3>1, <1>2, Consts DEF SeekSet, SeekCur, FileType
  <2> QED BY <2>1, <2>2, <1>2 DEF FileType
<1> QED BY <1>1, <1>3 DEF TypeOK, FileType, Places

LEMMA ZerosType == TypeOK /\ (Delete \/ ClearAll) => TypeOK'
<1> SUFFICES ASSUME TypeOK, Delete \/ ClearAll PROVE TypeOK'
  OBVIOUS
<1>1. flash' \in [Addrs -> Cell]
  BY Cells DEF Delete, Untitled, ClearAll, TypeOK
<1> QED BY <1>1, PlacesAre DEF Delete, ClearAll, EmptyPfs, TypeOK

LEMMA TypeStep == TypeOK /\ [Next]_vars => TypeOK'
<1> SUFFICES ASSUME TypeOK, [Next]_vars PROVE TypeOK'
  OBVIOUS
<1>1. CASE Mount
  BY <1>1, MountType
<1>2. CASE Unmount \/ PowerLoss
  BY <1>2, ForgetType DEF Unmount, PowerLoss, TypeOK
<1>3. ASSUME NEW own \in {0, WavLen}, Create(own) PROVE TypeOK'
  BY <1>3, CreateType
<1>4. ASSUME NEW b \in Sizes, Write(b) \/ Spill(b) PROVE TypeOK'
  BY <1>4, WriteType
<1>5. ASSUME NEW b \in Sizes, TornWrite(b) PROVE TypeOK'
  <2>1. Forget /\ \E upto, n : flash' = Written(upto, n)
    BY <1>5 DEF TornWrite
  <2> QED BY <2>1, WrittenType, ForgetType
<1>6. CASE UpdateHead
  BY <1>6, UpdateHeadType
<1>7. ASSUME NEW cut \in Cuts, NEW own \in {0, WavLen}, SeekEndAndClose(cut, own) PROVE TypeOK'
  BY <1>7, CloseType
<1>8. CASE Abandon
  BY <1>8 DEF Abandon, Shut, NoFile, TypeOK
<1>9. CASE CloseRead
  <2>1. pfs' \in PfsType
    BY <1>9 DEF CloseRead, TypeOK, PfsType, Places
  <2> QED BY <1>9, <2>1 DEF CloseRead, Shut, NoFile, TypeOK, PfsType, Places
<1>10. CASE OpenRead
  BY <1>10, OpenReadType
<1>11. CASE Delete \/ ClearAll
  BY <1>11, ZerosType
<1>12. CASE \/ \E b \in Sizes : Read(b)
            \/ \E off \in Offsets : SeekSet(off) \/ SeekCur(off)
  BY <1>12, ReaderType
<1>13. CASE UNCHANGED vars
  BY <1>13 DEF vars, TypeOK
<1> QED BY <1>1, <1>2, <1>3, <1>4, <1>5, <1>6, <1>7, <1>8, <1>9, <1>10, <1>11, <1>12, <1>13 DEF Next

\* Type correctness, for every partition, also once a recording went astray:
\* the place of the newest recording and of an open file is a sector or in front
\* of the partition, what is kept of them are numbers that fit, and a file is
\* open only on a mounted partition.
THEOREM TypeCorrect == Spec => []TypeOK
BY InitType, TypeStep, PTL DEF Spec

-----------------------------------------------------------------------------
(***************************************************************************)
(* The file that is written, until a recording goes astray: its position   *)
(* is behind its header and within its room, and what is to be programmed  *)
(* yet, the headers too, is erased.                                        *)
(***************************************************************************)

WriteShape ==
  mode = "write" =>
    /\ file.sector \in Starts
    /\ HeadLen <= file.rw_p /\ file.rw_p <= file.len /\ file.len <= Size
    /\ Whole(file.len) /\ file.len >= SectorLen
    /\ \A a \in Addrs : \/ Offset(file.sector, a) < HeadLen + head
                        \/ /\ file.rw_p <= Offset(file.sector, a)
                           /\ Offset(file.sector, a) < file.len
                        => flash[a] = Blank

IInv == TypeOK /\ WriteShape /\ ProgramsErased

LEMMA AstrayStays == [Next]_vars /\ ~astray' => ~astray
BY DEF Next, vars, Mount, Unmount, Forget, Create, Write, Spill, UpdateHead, SeekEndAndClose,
       Abandon, OpenRead, Read, SeekSet, SeekCur, CloseRead, Delete, ClearAll, PowerLoss, TornWrite

\* The room found for b more bytes, and how many of them it takes.
LEMMA RoomBounds ==
  ASSUME IInv, mode = "write", NEW b \in Sizes
  PROVE  /\ Room(b) \in Nat /\ file.len <= Room(b) /\ Room(b) <= Size /\ Whole(Room(b))
         /\ Fits(b) \in Nat /\ file.rw_p + Fits(b) <= Room(b) /\ file.rw_p <= Room(b)
<1>1. /\ file.len \in Nat /\ file.rw_p \in Nat /\ b \in Nat /\ file.len # 0
      /\ file.rw_p <= file.len /\ file.len <= Size /\ Whole(file.len)
  BY Consts DEF IInv, WriteShape, TypeOK
<1>2. Whole(Size) /\ Size \in Nat
  BY Bounds, Consts, Last + 1 - First \in Nat DEF Whole
<1> DEFINE n == file.rw_p + b
<1>3. n \in Nat /\ RoundUp(n) \in Nat /\ n <= RoundUp(n) /\ Whole(RoundUp(n))
  BY <1>1, Rounding
<1>4. /\ Room(b) \in Nat /\ file.len <= Room(b) /\ Room(b) <= Size /\ Whole(Room(b))
  BY <1>1, <1>2, <1>3 DEF Room
<1> QED BY <1>1, <1>4 DEF Fits

\* What a write leaves: its own data, erased room before and behind it.
LEMMA WrittenCells ==
  ASSUME IInv, mode = "write",
         NEW upto \in Nat, NEW n \in Nat, file.rw_p + n <= Atleast(upto, file.len),
         NEW a \in Addrs
  PROVE  LET p == Offset(file.sector, a)
         IN Written(upto, n)[a] =
              IF file.rw_p <= p /\ HeadLen + head <= p /\ p < file.rw_p + n
              THEN Data(file.index, p)
              ELSE IF file.len <= p /\ p < upto THEN Blank ELSE flash[a]
<1> DEFINE p == Offset(file.sector, a)
           old == IF p \in file.len .. upto - 1 THEN Blank ELSE flash[a]
           from == Atleast(file.rw_p, HeadLen + head)
<1>1. p \in Nat
  BY OffsetRange DEF IInv, WriteShape
<1>2. file.rw_p \in Nat /\ file.len \in Nat /\ HeadLen + head \in Nat
  BY HeadType DEF IInv, TypeOK
<1>3. Written(upto, n)[a] =
        IF p \in from .. file.rw_p + n - 1 THEN Program(old, Data(file.index, p)) ELSE old
  BY DEF Written
<1>4. (p \in file.len .. upto - 1) = (file.len <= p /\ p < upto)
  BY <1>1, <1>2
<1>5. (p \in from .. file.rw_p + n - 1)
        = (file.rw_p <= p /\ HeadLen + head <= p /\ p < file.rw_p + n)
  BY <1>1, <1>2 DEF Atleast
<1>6. ASSUME file.rw_p <= p, p < file.rw_p + n PROVE old = Blank
  <2>1. CASE p < file.len
    BY <2>1, <1>4, <1>6 DEF IInv, WriteShape
  <2>2. CASE file.len <= p
    BY <2>2, <1>1, <1>2, <1>4, <1>6 DEF Atleast
  <2> QED BY <2>1, <2>2, <1>1, <1>2
<1>7. CASE file.rw_p <= p /\ HeadLen + head <= p /\ p < file.rw_p + n
  BY <1>3, <1>5, <1>6, <1>7 DEF Program
<1>8. CASE ~(file.rw_p <= p /\ HeadLen + head <= p /\ p < file.rw_p + n)
  BY <1>3, <1>4, <1>5, <1>8
<1> QED BY <1>7, <1>8

-----------------------------------------------------------------------------
\* Each operation that leads no recording astray keeps the shape of the file
\* and the erased room

THEOREM InitIInv == Init => IInv
<1> SUFFICES ASSUME Init PROVE IInv
  OBVIOUS
<1>1. flash = [a \in Addrs |-> Blank]
  BY DEF Init
<1>2. \A a \in Addrs : flash[a] # Mixed
  BY <1>1, Cells
<1> QED BY <1>2, InitType DEF Init, IInv, WriteShape, ProgramsErased

\* An operation that does not end in writing, and programs nothing twice.
LEMMA NotWritingIInv ==
  ASSUME TypeOK', mode' # "write", \A a \in Addrs : flash'[a] # Mixed
  PROVE  IInv'
BY DEF IInv, WriteShape, ProgramsErased

LEMMA ErasedCells == ASSUME IInv, NEW s
                     PROVE  /\ Erase(s) \in [Addrs -> Cell]
                            /\ \A a \in Addrs : Erase(s)[a] # Mixed
                            /\ s \in Starts =>
                                 \A a \in Addrs : Erase(s)[a] = IF Offset(s, a) < SectorLen
                                                               THEN Blank ELSE flash[a]
<1>1. \A a \in Addrs : Erase(s)[a] = IF s \in Starts /\ a \in SectorAt(s) THEN Blank ELSE flash[a]
  BY DEF Erase
<1>2. \A a \in Addrs : flash[a] \in Cell /\ flash[a] # Mixed
  BY DEF IInv, TypeOK, ProgramsErased
<1> QED BY <1>1, <1>2, Cells, OffsetRange DEF Erase

LEMMA CreateIInv == ASSUME NEW own \in {0, WavLen}
                    PROVE  IInv /\ Create(own) /\ ~astray' => IInv'
<1> SUFFICES ASSUME IInv, Create(own), ~astray' PROVE IInv'
  OBVIOUS
<1> DEFINE s == Wrap(CheckHead(pfs.sector))
<1>1. /\ flash' = Erase(s) /\ s \in Starts /\ head' = own
      /\ file'.sector = s /\ file'.len = SectorLen /\ file'.rw_p = HeadLen
  BY DEF Create
<1>2. TypeOK'
  BY CreateType DEF IInv
<1> HIDE DEF s
<1>3. WriteShape'
  <2>1. \A a \in Addrs : Offset(s, a) < SectorLen => flash'[a] = Blank
    BY <1>1, ErasedCells
  <2>2. Whole(SectorLen)
    BY Consts, 1 \in Nat, SectorLen = 1 * SectorLen DEF Whole
  <2>3. \A a \in Addrs : Offset(s, a) \in Nat
    BY <1>1, OffsetRange
  <2>4. SectorLen <= Size
    BY Bounds, Consts
  <2>5. own \in Nat /\ HeadLen + own <= SectorLen
    BY Consts
  <2> QED BY <1>1, <2>1, <2>2, <2>3, <2>4, <2>5, Consts DEF WriteShape
<1>4. ProgramsErased'
  BY <1>1, ErasedCells DEF ProgramsErased
<1> QED BY <1>2, <1>3, <1>4 DEF IInv

LEMMA WriteIInv == ASSUME NEW b \in Sizes PROVE IInv /\ Write(b) => IInv'
<1> SUFFICES ASSUME IInv, Write(b) PROVE IInv'
  OBVIOUS
<1>0. TypeOK'
  BY WriteType DEF IInv
<1>1. /\ mode = "write" /\ flash' = Written(Room(b), Fits(b)) /\ head' = head
      /\ file'.sector = file.sector /\ file'.index = file.index
      /\ file'.len = Room(b) /\ file'.rw_p = file.rw_p + Fits(b)
  BY DEF Write, IInv, TypeOK
<1>2. /\ file.sector \in Starts /\ file.len \in Nat /\ file.rw_p \in Nat
      /\ HeadLen <= file.rw_p /\ file.rw_p <= file.len /\ SectorLen <= file.len
      /\ file.index \in Nat /\ HeadLen + head \in Nat /\ HeadLen + head <= SectorLen
  BY <1>1, HeadType DEF IInv, WriteShape, TypeOK
<1>3. /\ Room(b) \in Nat /\ file.len <= Room(b) /\ Room(b) <= Size /\ Whole(Room(b))
      /\ Fits(b) \in Nat /\ file.rw_p + Fits(b) <= Room(b)
  BY <1>1, RoomBounds
<1>4. \A a \in Addrs :
        LET p == Offset(file.sector, a)
        IN flash'[a] = IF file.rw_p <= p /\ HeadLen + head <= p /\ p < file.rw_p + Fits(b)
                       THEN Data(file.index, p)
                       ELSE IF file.len <= p /\ p < Room(b) THEN Blank ELSE flash[a]
  BY <1>1, <1>2, <1>3, WrittenCells DEF Atleast
<1> HIDE DEF Room, Fits
<1>6. \A a \in Addrs : Offset(file.sector, a) \in Nat
  BY <1>2, OffsetRange
<1>7. \A a \in Addrs : flash'[a] # Mixed
  BY <1>2, <1>4, <1>6, Cells DEF IInv, ProgramsErased
<1>8. WriteShape'
  <2>1. ASSUME NEW a \in Addrs,
               \/ Offset(file.sector, a) < HeadLen + head
               \/ file'.rw_p <= Offset(file.sector, a) /\ Offset(file.sector, a) < file'.len
        PROVE  flash'[a] = Blank
    BY <2>1, <1>1, <1>2, <1>3, <1>4, <1>6, Consts DEF IInv, WriteShape
  <2>2. HeadLen <= file'.rw_p /\ file'.rw_p <= file'.len /\ file'.len >= SectorLen
    BY <1>1, <1>2, <1>3, Consts
  <2> QED BY <2>1, <2>2, <1>1, <1>2, <1>3 DEF WriteShape
<1> QED BY <1>0, <1>7, <1>8 DEF IInv, ProgramsErased

\* Nothing is programmed from behind a buffer.
LEMMA NoSpill == ASSUME IInv, NEW b \in Sizes, Spill(b) PROVE FALSE
<1>1. mode = "write" /\ file.rw_p > Room(b)
  BY DEF Spill
<1>2. file.rw_p <= Room(b) /\ Room(b) \in Nat /\ file.rw_p \in Nat
  BY <1>1, RoomBounds DEF IInv, TypeOK
<1> HIDE DEF Room
<1> QED BY <1>1, <1>2

\* A close programs the headers where they were left erased.
LEMMA TitledCells ==
  ASSUME IInv, mode = "write", NEW len \in Nat, NEW own \in {0, head}
  PROVE  \A a \in Addrs :
           LET p == Offset(file.sector, a)
           IN Titled(len, own)[a] = IF p = 0 THEN Header(file.index, len)
                                    ELSE IF p < HeadLen + own THEN Data(file.index, p)
                                    ELSE flash[a]
<1> SUFFICES ASSUME NEW a \in Addrs
             PROVE  LET p == Offset(file.sector, a)
                    IN Titled(len, own)[a] = IF p = 0 THEN Header(file.index, len)
                                             ELSE IF p < HeadLen + own THEN Data(file.index, p)
                                             ELSE flash[a]
  OBVIOUS
<1> DEFINE p == Offset(file.sector, a)
<1>1. p \in Nat /\ own \in Nat /\ own <= head /\ head \in Nat
  BY OffsetRange, HeadType DEF IInv, WriteShape
<1>2. p < HeadLen + own => flash[a] = Blank
  BY <1>1, Consts DEF IInv, WriteShape
<1>3. Titled(len, own)[a] = IF p >= HeadLen + own THEN flash[a]
                            ELSE Program(flash[a], IF p = 0 THEN Header(file.index, len)
                                                   ELSE Data(file.index, p))
  BY DEF Titled
<1> QED BY <1>1, <1>2, <1>3, Consts DEF Program

\* Where a recording that does not go astray ends.
LEMMA ClosePosition ==
  ASSUME IInv, NEW cut \in Cuts, NEW own \in {0, WavLen}, SeekEndAndClose(cut, own), ~astray'
  PROVE  /\ mode = "write" /\ own \in {0, head}
         /\ \E p \in Nat : /\ CloseAt(p, own)
                           /\ HeadLen <= p /\ p <= file.len /\ p <= file.rw_p + HeadLen
<1>1. mode = "write" /\ own \in {0, head} /\ file.rw_p > cut + MinLen
  BY DEF SeekEndAndClose
<1>2. /\ file.rw_p \in Nat /\ file.len \in Nat /\ cut \in Nat /\ own \in Nat
      /\ MinLen \in Nat /\ own <= MinLen /\ HeadLen <= file.rw_p
  BY <1>1, Consts DEF IInv, TypeOK, WriteShape
<1>3. PICK p \in Nat : p = End(file.rw_p - cut, own)
  BY EndType DEF IInv
<1>4. CloseAt(p, own) /\ ~(p > file.len)
  BY <1>3 DEF SeekEndAndClose
<1>5. HeadLen <= p /\ p <= file.rw_p + HeadLen
  BY <1>1, <1>2, <1>3, Consts DEF End
<1> QED BY <1>1, <1>2, <1>4, <1>5

LEMMA CloseIInv == ASSUME NEW cut \in Cuts, NEW own \in {0, WavLen}
                   PROVE  IInv /\ SeekEndAndClose(cut, own) /\ ~astray' => IInv'
<1> SUFFICES ASSUME IInv, SeekEndAndClose(cut, own), ~astray' PROVE IInv'
  OBVIOUS
<1>1. PICK p \in Nat : mode = "write" /\ own \in {0, head} /\ CloseAt(p, own)
  BY ClosePosition
<1>2. \A a \in Addrs : flash'[a] # Mixed
  BY <1>1, TitledCells, Cells DEF CloseAt, IInv, ProgramsErased
<1>3. mode' = "none"
  BY <1>1 DEF CloseAt, Shut
<1> QED BY <1>2, <1>3, CloseType, NotWritingIInv DEF IInv

LEMMA TornIsWritten ==
  ASSUME IInv, NEW b \in Sizes, TornWrite(b)
  PROVE  \E upto \in Nat, n \in Nat :
           flash' = Written(upto, n) /\ file.rw_p + n <= Atleast(upto, file.len)
<1>1. mode = "write"
  BY DEF TornWrite
<1>2. file.len \in Nat /\ file.rw_p \in Nat /\ file.rw_p <= file.len
  BY <1>1 DEF IInv, WriteShape, TypeOK
<1>3. /\ Room(b) \in Nat /\ file.len <= Room(b)
      /\ Fits(b) \in Nat /\ file.rw_p + Fits(b) <= Room(b)
  BY <1>1, RoomBounds
<1>4. CASE \E upto \in file.len .. Room(b) : flash' = Written(upto, 0)
  BY <1>4, <1>2, <1>3 DEF Atleast
<1>5. CASE \E n \in 0 .. Fits(b) : flash' = Written(Room(b), n)
  BY <1>5, <1>2, <1>3 DEF Atleast
<1> QED BY <1>4, <1>5 DEF TornWrite

LEMMA TornIInv == ASSUME NEW b \in Sizes PROVE IInv /\ TornWrite(b) => IInv'
<1> SUFFICES ASSUME IInv, TornWrite(b) PROVE IInv'
  OBVIOUS
<1>1. mode = "write" /\ mode' = "none" /\ Forget
  BY DEF TornWrite, Forget
<1>2. file.sector \in Starts /\ file.rw_p \in Nat /\ file.len \in Nat /\ file.index \in Nat
  BY <1>1 DEF IInv, WriteShape, TypeOK
<1>3. PICK upto \in Nat, n \in Nat :
        flash' = Written(upto, n) /\ file.rw_p + n <= Atleast(upto, file.len)
  BY TornIsWritten
<1>4. \A a \in Addrs : flash'[a] # Mixed
  <2> SUFFICES ASSUME NEW a \in Addrs PROVE flash'[a] # Mixed
    OBVIOUS
  <2>1. Offset(file.sector, a) \in Nat
    BY <1>2, OffsetRange
  <2>2. flash[a] # Mixed
    BY DEF IInv, ProgramsErased
  <2> QED BY <2>1, <2>2, <1>1, <1>2, <1>3, WrittenCells, Cells
<1>5. TypeOK'
  BY <1>1, <1>3, WrittenType, ForgetType DEF IInv
<1> QED BY <1>1, <1>4, <1>5, NotWritingIInv

LEMMA ZerosIInv == IInv /\ (Delete \/ ClearAll) => IInv'
<1> SUFFICES ASSUME IInv, Delete \/ ClearAll PROVE IInv'
  OBVIOUS
<1>1. \A a \in Addrs : flash'[a] \in {Zero, flash[a]}
  BY DEF Delete, Untitled, ClearAll
<1>2. \A a \in Addrs : flash'[a] # Mixed
  BY <1>1, Cells DEF IInv, ProgramsErased
<1>3. mode' # "write"
  BY DEF Delete, ClearAll
<1> QED BY <1>2, <1>3, ZerosType, NotWritingIInv DEF IInv

LEMMA NextIInv == IInv /\ [Next]_vars /\ ~astray' => IInv'
<1> SUFFICES ASSUME IInv, [Next]_vars, ~astray' PROVE IInv'
  OBVIOUS
<1>0. TypeOK'
  BY TypeStep DEF IInv
<1>1. CASE flash' = flash /\ mode' # "write"
  BY <1>0, <1>1, NotWritingIInv DEF IInv, ProgramsErased
<1>2. CASE Mount
  BY <1>2, <1>1 DEF Mount, IInv, TypeOK
<1>3. CASE Unmount \/ PowerLoss \/ Abandon \/ CloseRead \/ OpenRead
  BY <1>3, <1>1 DEF Unmount, PowerLoss, Forget, Abandon, CloseRead, Shut, OpenRead
<1>4. ASSUME NEW own \in {0, WavLen}, Create(own) PROVE IInv'
  BY <1>4, CreateIInv
<1>5. ASSUME NEW b \in Sizes, Write(b) \/ Spill(b) \/ TornWrite(b) PROVE IInv'
  BY <1>5, WriteIInv, TornIInv, NoSpill
<1>6. CASE UpdateHead
  BY <1>6 DEF UpdateHead
<1>7. ASSUME NEW cut \in Cuts, NEW own \in {0, WavLen}, SeekEndAndClose(cut, own) PROVE IInv'
  BY <1>7, CloseIInv
<1>8. CASE Delete \/ ClearAll
  BY <1>8, ZerosIInv
<1>9. CASE \/ \E b \in Sizes : Read(b)
           \/ \E off \in Offsets : SeekSet(off) \/ SeekCur(off)
  BY <1>9, <1>1 DEF Read, SeekSet, SeekCur
<1>10. CASE UNCHANGED vars
  BY <1>0, <1>10 DEF vars, IInv, WriteShape, ProgramsErased
<1> QED BY <1>2, <1>3, <1>4, <1>5, <1>6, <1>7, <1>8, <1>9, <1>10 DEF Next

-----------------------------------------------------------------------------
(***************************************************************************)
(* The ring.  The recordings do not overlap, and their numbers rise from   *)
(* the place behind the newest one all the way round to it.  A recording   *)
(* that is written pushes the end of its room in front of it, and so meets *)
(* the header of the next old one before anything else of it.              *)
(***************************************************************************)

Idx(s) == flash[s].index
SpanOf(s) == RoundUp(flash[s].at)

Disjoint == \A s \in Headers : /\ flash[s].at >= HeadLen
                               /\ \A t \in Headers : s # t => Offset(t, s) >= SpanOf(t)

\* No recording reaches into the sector c.
Behind(c) == \A s \in Headers : s # c => Offset(s, c) >= SpanOf(s)

\* The numbers rise from c on.
Rising(c) == \A s, t \in Headers : Offset(c, s) < Offset(c, t) => Idx(s) < Idx(t)

\* The numbers rise from the sector behind n on, n last.
Top(n) == /\ \A s, t \in Headers : s # n /\ t # n /\ Offset(n, s) < Offset(n, t) => Idx(s) < Idx(t)
          /\ n \in Headers => \A s \in Headers : s # n => Idx(s) < Idx(n)

WholeAt(s) == \A p \in HeadLen .. flash[s].at - 1 :
                \/ flash[Wrap(s + p)] = Data(flash[s].index, p)
                \/ /\ flash[Wrap(s + p)] = Blank
                   /\ p < HeadLen + WavLen \/ p >= flash[s].at - HeadLen

\* With c and i in RAM for the newest recording, when l was the last that was
\* opened: c is in front of the partition, after l was not found, or else it is
\* the place of the newest recording, or of where that was.
NewestAt(c, i, l) ==
  \/ c = 0 /\ i = 0 /\ \A s \in Headers : Idx(s) # l
  \/ /\ c \in Starts
     /\ Behind(c) /\ Top(c)
     /\ \A s \in Headers : Idx(s) <= i
     /\ c \in Headers => Idx(c) = i
     /\ c \notin Headers => \A s \in Headers : Idx(s) < l

\* The newest recording of a mounted partition, in RAM.
NewestInRam == NewestAt(pfs.sector, pfs.index, last)

\* The one that is played is the newest one.
Reading == NewestAt(file.sector, file.index, last)

Writing ==
  /\ file.sector \in Starts /\ file.index = last
  /\ \A s \in Headers : /\ Offset(file.sector, s) >= file.len
                        /\ Offset(file.sector, s) + SpanOf(s) <= Size
                        /\ Idx(s) < file.index
  /\ Rising(file.sector)
  /\ \A a \in Addrs : HeadLen + head <= Offset(file.sector, a) /\ Offset(file.sector, a) < file.rw_p
                     => flash[a] = Data(file.index, Offset(file.sector, a))

RInv == /\ Disjoint
        /\ \E n \in Starts : Top(n)
        /\ \A s \in Headers : WholeAt(s)
        /\ mounted => NewestInRam /\ \A s \in Headers : Idx(s) <= last
        /\ mode = "read" => Reading
        /\ mode = "write" => Writing

LEMMA HeaderFacts == ASSUME IInv, NEW s \in Headers
                     PROVE  /\ s \in Starts /\ s \in Addrs /\ s \in Nat
                            /\ flash[s].at \in Nat /\ flash[s].at <= Size
                            /\ Idx(s) \in Nat /\ SpanOf(s) \in Nat
                            /\ flash[s].at <= SpanOf(s) /\ SpanOf(s) <= Size
                            /\ flash[s].is = "head" /\ Valid(s)
<1>1. Valid(s)
  BY DEF Headers
<1>2. Whole(Size) /\ Size \in Nat
  BY Bounds, Consts, Last + 1 - First \in Nat DEF Whole
<1> QED BY <1>1, <1>2, HeaderTypes, Rounding DEF IInv, Idx, SpanOf, Valid

\* The largest number is where the rise ends.
LEMMA TopIsNewest == ASSUME IInv, NEW n \in Starts, Top(n),
                            NEW m \in Headers, \A s \in Headers : Idx(s) <= Idx(m)
                     PROVE  Top(m)
<1>0. m \in Starts /\ m \in Nat /\ Idx(m) \in Nat
  BY HeaderFacts
<1>1. CASE n \in Headers
  <2>1. m = n
    BY <1>1, HeaderFacts DEF Top
  <2> QED BY <2>1
<1>2. CASE n \notin Headers
  <2>1. ASSUME NEW s \in Headers, s # m
        PROVE  /\ Offset(n, s) < Offset(n, m) /\ Idx(s) < Idx(m)
               /\ Offset(m, s) = Offset(n, s) - Offset(n, m) + Size
               /\ Offset(n, s) \in Nat
    <3>1. /\ s \in Starts /\ s \in Nat /\ Lo <= s /\ s < Hi
          /\ m \in Nat /\ Lo <= m /\ m < Hi /\ n \in Nat /\ Lo <= n /\ n < Hi
          /\ Idx(s) \in Nat /\ Idx(m) \in Nat
      BY <1>0, HeaderFacts, Sectors, Bounds, Consts
    <3>2. Offset(n, s) # Offset(n, m)
      BY <2>1, <3>1, Bounds DEF Offset
    <3>3. ~(Offset(n, m) < Offset(n, s))
      BY <1>2, <3>1, <2>1 DEF Top
    <3>4. Offset(n, s) \in Nat /\ Offset(n, m) \in Nat
      BY <3>1, Bounds DEF Offset
    <3>5. Offset(n, s) < Offset(n, m)
      BY <3>2, <3>3, <3>4
    <3>6. Idx(s) < Idx(m)
      BY <1>2, <2>1, <3>5 DEF Top
    <3>7. Offset(m, s) = Offset(n, s) - Offset(n, m) + Size
      BY <3>1, <3>5, Bounds DEF Offset
    <3> QED BY <3>4, <3>5, <3>6, <3>7
  <2>2. Offset(n, m) \in Nat
    BY <1>0, Sectors, OffsetRange
  <2>3. ASSUME NEW s \in Headers, NEW t \in Headers, s # m, t # m, Offset(m, s) < Offset(m, t)
        PROVE  Idx(s) < Idx(t)
    <3>1. Offset(n, s) < Offset(n, t)
      BY <2>1, <2>2, <2>3, Bounds
    <3> QED BY <1>2, <2>3, <3>1 DEF Top
  <2> QED BY <2>1, <2>3 DEF Top
<1> QED BY <1>1, <1>2

\* Where the cells of a recording are, seen from a sector it does not reach.
LEMMA CellsOfRecording ==
  ASSUME IInv, NEW c \in Starts, NEW s \in Headers,
         Offset(c, s) + SpanOf(s) <= Size, NEW p \in HeadLen .. flash[s].at - 1
  PROVE  /\ Wrap(s + p) \in Addrs
         /\ Offset(c, Wrap(s + p)) = Offset(c, s) + p
<1>1. /\ s \in Nat /\ Lo <= s /\ s < Hi /\ c \in Nat /\ Lo <= c /\ c < Hi
  BY HeaderFacts, Sectors, Bounds, Consts
<1>2. p \in Nat /\ p < SpanOf(s) /\ SpanOf(s) \in Nat /\ p < Size
  <2>1. /\ flash[s].at \in Nat /\ flash[s].at <= SpanOf(s)
        /\ SpanOf(s) \in Nat /\ SpanOf(s) <= Size
    BY HeaderFacts
  <2> QED BY <2>1, Consts, Bounds
<1>3. Wrap(s + p) \in Nat /\ Lo <= Wrap(s + p) /\ Wrap(s + p) < Hi
  BY <1>1, <1>2, Bounds DEF Wrap
<1>4. Offset(c, Wrap(s + p)) = Offset(c, s) + p
  BY <1>1, <1>2, <1>3, Bounds DEF Wrap, Offset
<1> QED BY <1>3, <1>4, Bounds DEF Addrs

-----------------------------------------------------------------------------
\* What an operation on the flash keeps

\* Fewer recordings are apart when more were, and their numbers rise still.
LEMMA Fewer ==
  ASSUME Headers' \subseteq Headers, \A s \in Headers' : flash'[s] = flash[s]
  PROVE  /\ Disjoint => Disjoint'
         /\ ((\A s \in Headers : Idx(s) <= last) /\ last' = last) => (\A s \in Headers : Idx(s) <= last)'
         /\ \A n \in Starts : /\ Top(n) => Top(n)'
                              /\ Behind(n) => Behind(n)'
                              /\ Rising(n) => Rising(n)'
<1>1. \A s \in Headers' : s \in Headers /\ Idx(s)' = Idx(s) /\ SpanOf(s)' = SpanOf(s)
  BY DEF Idx, SpanOf
<1>2. Disjoint => Disjoint'
  BY <1>1 DEF Disjoint
<1>3. (\A s \in Headers : Idx(s) <= last) /\ last' = last => (\A s \in Headers : Idx(s) <= last)'
  BY <1>1
<1>4. ASSUME NEW n \in Starts
      PROVE  (Top(n) => Top(n)') /\ (Behind(n) => Behind(n)') /\ (Rising(n) => Rising(n)')
  BY <1>1 DEF Top, Behind, Rising
<1> QED BY <1>2, <1>3, <1>4

\* The flash changes only in front of hi, seen from c, and leaves no header
\* there: exactly the recordings behind hi are left, and they are whole.
LEMMA Overwritten ==
  ASSUME IInv, NEW c \in Starts, NEW hi \in Nat, flash' \in [Addrs -> Cell],
         \A a \in Addrs : Offset(c, a) >= hi => flash'[a] = flash[a],
         \A s \in Headers' : Offset(c, s) >= hi,
         \A s \in Headers : Offset(c, s) < hi \/ Offset(c, s) + SpanOf(s) <= Size
  PROVE  /\ Headers' = {s \in Headers : Offset(c, s) >= hi}
         /\ \A s \in Headers' : flash'[s] = flash[s] /\ (WholeAt(s) => WholeAt(s)')
<1>1. \A s \in Starts : s \in Addrs /\ Offset(c, s) \in Nat
  BY Sectors, OffsetRange
<1>2. \A s \in Starts : Offset(c, s) >= hi => flash'[s] = flash[s]
  BY <1>1
<1>3. \A s \in Starts : (s \in Headers') = (s \in Headers /\ Offset(c, s) >= hi)
  BY <1>1, <1>2 DEF Headers, Valid
<1>4. Headers' \subseteq Starts /\ Headers \subseteq Starts
  BY DEF Headers
<1>5. Headers' = {s \in Headers : Offset(c, s) >= hi}
  BY <1>3, <1>4
<1>6. ASSUME NEW s \in Headers', WholeAt(s) PROVE WholeAt(s)'
  <2>1. s \in Headers /\ Offset(c, s) >= hi /\ flash'[s] = flash[s] /\ Offset(c, s) \in Nat
    BY <1>1, <1>2, <1>3, <1>4
  <2>2. Offset(c, s) + SpanOf(s) <= Size
    BY <2>1
  <2>3. ASSUME NEW p \in HeadLen .. flash[s].at - 1
        PROVE  flash'[Wrap(s + p)] = flash[Wrap(s + p)]
    <3>1. Wrap(s + p) \in Addrs /\ Offset(c, Wrap(s + p)) = Offset(c, s) + p
      BY <2>1, <2>2, CellsOfRecording
    <3>2. p \in Nat
      BY <2>1, HeaderFacts, Consts
    <3> QED BY <2>1, <3>1, <3>2
  <2> QED BY <1>6, <2>1, <2>3 DEF WholeAt
<1> QED BY <1>2, <1>3, <1>4, <1>5, <1>6

\* A change that touches neither headers nor the cells of recordings.
LEMMA SameFlash == flash' = flash => /\ Headers' = Headers
                                     /\ \A s \in Headers : Idx(s)' = Idx(s) /\ (WholeAt(s) => WholeAt(s)')
                                     /\ Disjoint => Disjoint'
                                     /\ \A n : /\ Top(n) => Top(n)'
                                               /\ Behind(n) => Behind(n)'
                                               /\ Rising(n) => Rising(n)'
BY DEF Headers, Valid, Idx, SpanOf, WholeAt, Disjoint, Top, Behind, Rising

\* The newest one is where it was, unless it goes: then all others have smaller
\* numbers than the last that was opened.
LEMMA NewestKept ==
  ASSUME NEW c, NEW i, NEW l, NewestAt(c, i, l),
         Headers' \subseteq Headers, \A s \in Headers' : flash'[s] = flash[s],
         c \in Headers /\ c \notin Headers' => \A s \in Headers' : Idx(s) < l
  PROVE  NewestAt(c, i, l)'
<1>1. \A s \in Headers' : s \in Headers /\ Idx(s)' = Idx(s) /\ SpanOf(s)' = SpanOf(s)
  BY DEF Idx, SpanOf
<1>2. CASE c = 0 /\ i = 0 /\ \A s \in Headers : Idx(s) # l
  BY <1>1, <1>2 DEF NewestAt
<1>3. CASE /\ c \in Starts /\ Behind(c) /\ Top(c)
           /\ \A s \in Headers : Idx(s) <= i
           /\ c \in Headers => Idx(c) = i
           /\ c \notin Headers => \A s \in Headers : Idx(s) < l
  <2>1. Behind(c)' /\ Top(c)'
    BY <1>3, Fewer
  <2> QED BY <1>1, <1>3, <2>1 DEF NewestAt
<1> QED BY <1>2, <1>3 DEF NewestAt

-----------------------------------------------------------------------------
\* The scan

\* Recordings that do not overlap are all seen.
LEMMA AllSeen == ASSUME IInv, Disjoint, NEW found \in SUBSET Headers
                 PROVE  Seen(found) <=> found = Headers
<1>1. ASSUME NEW s \in Headers, NEW t \in Headers PROVE ~(t < s /\ s < t + Span(t))
  <2> SUFFICES ASSUME t < s, s < t + Span(t) PROVE FALSE
    OBVIOUS
  <2>1. s \in Nat /\ t \in Nat /\ flash[t].at \in Nat /\ SpanOf(t) \in Nat
    BY HeaderFacts
  <2>2. Offset(t, s) >= SpanOf(t) /\ flash[t].at >= HeadLen
    BY <2>1 DEF Disjoint
  <2>3. Span(t) = SpanOf(t)
    BY <2>1, <2>2, Consts DEF Span, SpanOf, Atleast
  <2> QED BY <2>1, <2>2, <2>3 DEF Offset
<1> QED BY <1>1 DEF Seen

\* A mount finds the newest recording, if there is one.
LEMMA MountFacts ==
  ASSUME IInv, RInv, Mount
  PROVE  /\ pfs'.total = Cardinality(Headers)
         /\ \/ Headers = {} /\ pfs' = EmptyPfs
            \/ \E m \in Headers : /\ pfs'.sector = m /\ pfs'.index = Idx(m)
                                  /\ \A s \in Headers : Idx(s) <= Idx(m)
                                  /\ Top(m)
<1>1. PICK found \in SUBSET Headers :
        /\ Seen(found)
        /\ \/ found = {} /\ pfs' = EmptyPfs
           \/ \E s \in found : Newest(s, found) /\ pfs' = FoundPfs(s, found)
  BY DEF Mount
<1>2. found = Headers
  BY <1>1, AllSeen DEF RInv
<1>3. CASE found = {} /\ pfs' = EmptyPfs
  BY <1>2, <1>3, FS_EmptySet DEF EmptyPfs
<1>4. ASSUME NEW m \in Headers, Newest(m, Headers), pfs' = FoundPfs(m, Headers)
      PROVE  /\ pfs'.total = Cardinality(Headers) /\ pfs'.sector = m /\ pfs'.index = Idx(m)
             /\ \A s \in Headers : Idx(s) <= Idx(m)
             /\ Top(m)
  <2>1. \A s \in Headers : Idx(s) <= Idx(m)
    BY <1>4, HeaderFacts DEF Newest, Idx
  <2>2. Top(m)
    BY <2>1, TopIsNewest DEF RInv
  <2> QED BY <1>4, <2>1, <2>2 DEF FoundPfs, Idx
<1> QED BY <1>1, <1>2, <1>3, <1>4

LEMMA MountRInv == IInv /\ RInv /\ Mount => RInv'
<1> SUFFICES ASSUME IInv, RInv, Mount PROVE RInv'
  OBVIOUS
<1>1. flash' = flash /\ mode' = mode /\ file' = file /\ last' = pfs'.index
  BY DEF Mount
<1>2. mode = "none"
  BY DEF Mount, IInv, TypeOK
<1>3. /\ NewestInRam' /\ (\A s \in Headers : Idx(s) <= last)'
  <2>1. CASE Headers = {} /\ pfs' = EmptyPfs
    <3>1. Lo \in Starts
      BY Consts DEF Lo, Starts
    <3> QED BY <1>1, <2>1, <3>1, SameFlash DEF EmptyPfs, NewestInRam, NewestAt, Behind, Top
  <2>2. ASSUME NEW m \in Headers, pfs'.sector = m, pfs'.index = Idx(m),
               \A s \in Headers : Idx(s) <= Idx(m), Top(m)
        PROVE  NewestInRam' /\ (\A s \in Headers : Idx(s) <= last)'
    <3>1. m \in Starts /\ Behind(m)
      BY HeaderFacts DEF Behind, RInv, Disjoint
    <3>2. Headers' = Headers /\ Top(m)' /\ Behind(m)' /\ \A s \in Headers : Idx(s)' = Idx(s)
      BY <1>1, <2>2, <3>1, SameFlash
    <3>3. Top(pfs.sector)' /\ Behind(pfs.sector)'
      BY <2>2, <3>2 DEF Top, Behind
    <3> QED BY <1>1, <2>2, <3>1, <3>2, <3>3 DEF NewestInRam, NewestAt
  <2> QED BY <2>1, <2>2, MountFacts
<1> QED BY <1>1, <1>2, <1>3, SameFlash DEF RInv

-----------------------------------------------------------------------------
\* Writing

\* A write, torn or not, takes the oldest recordings away and spoils no other.
LEMMA WrittenRing ==
  ASSUME IInv, RInv, mode = "write",
         NEW upto \in Nat, NEW n \in Nat, file.rw_p + n <= Atleast(upto, file.len),
         flash' = Written(upto, n), flash' \in [Addrs -> Cell]
  PROVE  LET hi == Atleast(upto, file.len)
         IN /\ Headers' = {s \in Headers : Offset(file.sector, s) >= hi}
            /\ \A s \in Headers' : flash'[s] = flash[s] /\ WholeAt(s)'
<1> DEFINE c == file.sector
           hi == Atleast(upto, file.len)
<1>1. /\ c \in Starts /\ file.len \in Nat /\ file.rw_p \in Nat /\ hi \in Nat
      /\ file.rw_p <= file.len /\ file.len <= hi /\ upto <= hi
      /\ \A s \in Headers : Offset(c, s) >= file.len /\ Offset(c, s) + SpanOf(s) <= Size
  BY DEF IInv, TypeOK, WriteShape, RInv, Writing, Atleast
<1>2. \A a \in Addrs :
        LET p == Offset(c, a)
        IN flash'[a] = IF file.rw_p <= p /\ HeadLen + head <= p /\ p < file.rw_p + n
                       THEN Data(file.index, p)
                       ELSE IF file.len <= p /\ p < upto THEN Blank ELSE flash[a]
  BY <1>1, WrittenCells
<1>3. \A a \in Addrs : Offset(c, a) \in Nat
  BY <1>1, OffsetRange
<1>4. \A a \in Addrs : Offset(c, a) >= hi => flash'[a] = flash[a]
  BY <1>1, <1>2, <1>3
<1>5. ASSUME NEW s \in Headers' PROVE Offset(c, s) >= hi
  <2>1. s \in Starts /\ s \in Addrs /\ flash'[s].is = "head" /\ flash'[s].at <= Size
    BY Sectors DEF Headers, Valid
  <2>2. flash'[s] = flash[s] \/ ~(Offset(c, s) < hi)
    <3> SUFFICES ASSUME Offset(c, s) < hi, flash'[s] # flash[s] PROVE FALSE
      OBVIOUS
    <3>1. flash'[s] = Blank \/ \E p : flash'[s] = Data(file.index, p)
      BY <1>2, <2>1
    <3> QED BY <2>1, <3>1 DEF Blank, Data
  <2>3. ASSUME flash'[s] = flash[s], Offset(c, s) < hi PROVE FALSE
    <3>1. s \in Headers
      BY <2>1, <2>3 DEF Headers, Valid
    <3>2. Offset(c, s) >= file.len
      BY <1>1, <3>1
    <3>3. flash'[s] = Blank \/ \E p : flash'[s] = Data(file.index, p)
      BY <1>1, <1>2, <1>3, <2>1, <2>3, <3>2 DEF Atleast
    <3> QED BY <2>1, <3>3 DEF Blank, Data
  <2> QED BY <1>1, <1>3, <2>1, <2>2, <2>3
<1>6. /\ Headers' = {s \in Headers : Offset(c, s) >= hi}
      /\ \A s \in Headers' : flash'[s] = flash[s] /\ (WholeAt(s) => WholeAt(s)')
  <2> HIDE DEF c, hi
  <2> QED BY <1>1, <1>4, <1>5, Overwritten
<1> QED BY <1>6 DEF RInv

LEMMA WriteRInv == ASSUME NEW b \in Sizes PROVE IInv /\ RInv /\ Write(b) => RInv'
<1> SUFFICES ASSUME IInv, RInv, Write(b) PROVE RInv'
  OBVIOUS
<1>1. /\ mode = "write" /\ mode' = "write"
      /\ flash' = Written(Room(b), Fits(b))
      /\ file'.len = Room(b) /\ file'.rw_p = file.rw_p + Fits(b)
      /\ file'.sector = file.sector /\ file'.index = file.index
      /\ UNCHANGED <<mounted, pfs, last, head>>
  BY DEF Write, IInv, TypeOK
<1>2. /\ Room(b) \in Nat /\ file.len <= Room(b) /\ Atleast(Room(b), file.len) = Room(b)
      /\ Fits(b) \in Nat /\ file.rw_p + Fits(b) <= Room(b)
  BY <1>1, RoomBounds DEF Atleast, IInv, TypeOK
<1>3. IInv'
  BY WriteIInv
<1>4. /\ Headers' = {s \in Headers : Offset(file.sector, s) >= Room(b)}
      /\ \A s \in Headers' : flash'[s] = flash[s] /\ WholeAt(s)'
  BY <1>1, <1>2, <1>3, WrittenRing DEF IInv, TypeOK
<1>5. /\ Headers' \subseteq Headers
      /\ \A s \in Headers' : Idx(s)' = Idx(s) /\ SpanOf(s)' = SpanOf(s)
  BY <1>4 DEF Idx, SpanOf
<1>6. /\ file.sector \in Starts /\ file.rw_p \in Nat /\ file.index \in Nat
      /\ HeadLen + head \in Nat /\ file.len \in Nat /\ file.rw_p <= file.len
  BY <1>1, HeadType DEF IInv, TypeOK, RInv, Writing, WriteShape
<1>7. NewestInRam' /\ (\A s \in Headers : Idx(s) <= last)'
  <2>1. NewestInRam /\ (\A s \in Headers : Idx(s) <= last) /\ \A s \in Headers : Idx(s) < last
    BY <1>1 DEF RInv, IInv, TypeOK, Writing
  <2>2. PICK c, i, l : c = pfs.sector /\ i = pfs.index /\ l = last
    OBVIOUS
  <2>3. NewestAt(c, i, l)'
    BY <1>4, <1>5, <2>1, <2>2, NewestKept DEF NewestInRam
  <2> QED BY <1>1, <1>5, <2>1, <2>2, <2>3 DEF NewestInRam, NewestAt, Behind, Top
<1>8. Writing'
  <2>1. /\ file'.sector \in Starts /\ file'.index = last'
        /\ \A s \in Headers' : /\ Offset(file'.sector, s) >= file'.len
                               /\ Offset(file'.sector, s) + SpanOf(s)' <= Size
                               /\ Idx(s)' < file'.index
        /\ Rising(file.sector)'
    BY <1>1, <1>4, <1>5, <1>6, Fewer DEF RInv, Writing
  <2>2. \A a \in Addrs : /\ HeadLen + head <= Offset(file.sector, a)
                         /\ Offset(file.sector, a) < file.rw_p + Fits(b)
                         => flash'[a] = Data(file.index, Offset(file.sector, a))
    <3> SUFFICES ASSUME NEW a \in Addrs, HeadLen + head <= Offset(file.sector, a),
                        Offset(file.sector, a) < file.rw_p + Fits(b)
                 PROVE  flash'[a] = Data(file.index, Offset(file.sector, a))
      OBVIOUS
    <3>1. Offset(file.sector, a) \in Nat
      BY <1>6, OffsetRange
    <3>2. LET p == Offset(file.sector, a)
          IN flash'[a] = IF file.rw_p <= p /\ HeadLen + head <= p /\ p < file.rw_p + Fits(b)
                         THEN Data(file.index, p)
                         ELSE IF file.len <= p /\ p < Room(b) THEN Blank ELSE flash[a]
      BY <1>1, <1>2, <1>6, WrittenCells
    <3> HIDE DEF Room, Fits
    <3>3. CASE file.rw_p <= Offset(file.sector, a)
      BY <3>2, <3>3
    <3>4. CASE Offset(file.sector, a) < file.rw_p
      BY <3>1, <3>2, <3>4, <1>1, <1>6 DEF RInv, Writing
    <3> QED BY <3>1, <3>3, <3>4, <1>6
  <2> QED BY <2>1, <2>2, <1>1 DEF Writing, Rising
<1> QED BY <1>1, <1>4, <1>5, <1>7, <1>8, Fewer DEF RInv

LEMMA TornRInv == ASSUME NEW b \in Sizes PROVE IInv /\ RInv /\ TornWrite(b) => RInv'
<1> SUFFICES ASSUME IInv, RInv, TornWrite(b) PROVE RInv'
  OBVIOUS
<1>1. mode = "write" /\ mode' = "none" /\ ~mounted' /\ IInv'
  BY TornIInv DEF TornWrite, Forget
<1>2. PICK upto \in Nat, n \in Nat :
        flash' = Written(upto, n) /\ file.rw_p + n <= Atleast(upto, file.len)
  BY <1>1, TornIsWritten
<1>3. /\ Headers' \subseteq Headers
      /\ \A s \in Headers' : flash'[s] = flash[s] /\ WholeAt(s)'
  BY <1>1, <1>2, WrittenRing DEF IInv, TypeOK
<1> QED BY <1>1, <1>3, Fewer DEF RInv

\* Behind the newest recording the oldest one is next, at the same place or later.
LEMMA PlaceOfNew ==
  ASSUME IInv, RInv, mounted, pfs.sector # 0
  PROVE  LET c == Wrap(CheckHead(pfs.sector))
         IN /\ c \in Starts /\ Rising(c)
            /\ \A s \in Headers : s = c \/ Offset(c, s) + SpanOf(s) <= Size
<1> DEFINE n == pfs.sector
           c == Wrap(CheckHead(n))
           r == SpanOf(n)
<1>1. /\ n \in Starts /\ n \in Nat /\ Lo <= n /\ n < Hi /\ Behind(n) /\ Top(n)
      /\ Size \in Nat /\ Size = Hi - Lo /\ Lo \in Nat /\ Hi \in Nat
  BY Sectors, Bounds, Consts DEF RInv, NewestInRam, NewestAt
<1>2. \A s \in Headers : /\ s \in Starts /\ s \in Nat /\ Lo <= s /\ s < Hi
                         /\ SpanOf(s) \in Nat /\ SpanOf(s) <= Size
  BY HeaderFacts, Sectors, Bounds, Consts
<1>3. \A s \in Headers : s # n => Offset(n, s) + SpanOf(s) <= Size /\ Offset(n, s) \in Nat
  <2> SUFFICES ASSUME NEW s \in Headers, s # n
               PROVE  Offset(n, s) + SpanOf(s) <= Size /\ Offset(n, s) \in Nat
    OBVIOUS
  <2>1. Offset(s, n) >= SpanOf(s)
    BY <1>1 DEF Behind
  <2> QED BY <2>1, <1>1, <1>2 DEF Offset
<1>4. CASE n \notin Headers
  <2>1. c = n
    BY <1>1, <1>4 DEF CheckHead, Wrap, Headers
  <2>2. Rising(n)
    BY <1>1, <1>4 DEF Top, Rising
  <2> QED BY <1>1, <1>3, <2>1, <2>2
<1>5. CASE n \in Headers
  <2>1. r \in Nat /\ r <= Size /\ Whole(r) /\ r > 0
    <3>1. flash[n].at \in Nat /\ flash[n].at >= HeadLen /\ flash[n].at <= r
      BY <1>5, HeaderFacts DEF RInv, Disjoint
    <3> QED BY <3>1, <1>2, <1>5, Rounding, Consts DEF SpanOf
  <2>2. c = Wrap(n + r) /\ c \in Starts
    BY <1>1, <1>5, <2>1, RoundTheRing DEF CheckHead, Headers, SpanOf
  <2>3. \A s \in Headers : s # n => Offset(n, s) >= r /\ Offset(n, s) < Size
    BY <1>1, <1>2, <1>5, OffsetRange, Sectors DEF RInv, Disjoint
  <2>4. CASE r = Size
    <3>1. c = n /\ \A s \in Headers : s = n
      BY <1>1, <2>1, <2>2, <2>3, <2>4, <1>3 DEF Wrap
    <3>2. Rising(n)
      BY <3>1, <1>1 DEF Rising, Offset
    <3> QED BY <2>2, <3>1, <3>2
  <2>5. CASE r < Size
    <3>1. c \in Nat /\ Lo <= c /\ c < Hi
      BY <2>2, Sectors, Bounds, Consts
    <3>2. Offset(c, n) = Size - r
      BY <1>1, <2>1, <2>2, <2>5, <3>1 DEF Wrap, Offset
    <3>3. \A s \in Headers : s # n => Offset(c, s) = Offset(n, s) - r
      BY <1>1, <1>2, <2>1, <2>2, <2>3, <2>5, <3>1 DEF Wrap, Offset
    <3>4. \A s \in Headers : Offset(c, s) + SpanOf(s) <= Size
      BY <1>2, <1>3, <2>1, <3>2, <3>3, <1>1
    <3>5. Rising(c)
      <4> SUFFICES ASSUME NEW s \in Headers, NEW t \in Headers, Offset(c, s) < Offset(c, t)
                   PROVE  Idx(s) < Idx(t)
        BY DEF Rising
      <4>1. CASE s # n /\ t # n
        BY <4>1, <1>1, <1>3, <2>1, <3>3 DEF Top
      <4>2. CASE s # n /\ t = n
        BY <4>2, <1>1, <1>5 DEF Top
      <4>3. CASE s = n /\ t # n
        BY <4>3, <1>1, <1>3, <2>1, <2>3, <3>2, <3>3
      <4>4. CASE s = n /\ t = n
        BY <4>4, <1>1, <2>1, <3>2
      <4> QED BY <4>1, <4>2, <4>3, <4>4
    <3> QED BY <2>2, <3>4, <3>5
  <2> QED BY <2>1, <2>4, <2>5, Bounds
<1> QED BY <1>4, <1>5

\* A new recording erases its first sector: only the oldest one may go.
LEMMA CreatedRing ==
  ASSUME IInv, RInv, NEW own \in {0, WavLen}, Create(own), ~astray'
  PROVE  LET c == Wrap(CheckHead(pfs.sector))
         IN /\ c \in Starts /\ Rising(c) /\ file'.sector = c
            /\ Headers' = Headers \ {c}
            /\ \A s \in Headers' : /\ flash'[s] = flash[s] /\ WholeAt(s)'
                                  /\ Offset(c, s) >= SectorLen
                                  /\ Offset(c, s) + SpanOf(s) <= Size
<1> DEFINE c == Wrap(CheckHead(pfs.sector))
<1>0. pfs.sector # 0
  <2> SUFFICES ASSUME pfs.sector = 0 PROVE FALSE
    OBVIOUS
  <2>1. c = 0
    BY PlacesAre, Bounds DEF CheckHead, Valid, Wrap
  <2> QED BY <2>1, PlacesAre DEF Create
<1>1. /\ c \in Starts /\ Rising(c)
      /\ \A s \in Headers : s = c \/ Offset(c, s) + SpanOf(s) <= Size
  BY <1>0, PlaceOfNew DEF Create
<1>2. flash' = Erase(c) /\ file'.sector = c
  BY DEF Create
<1>3. /\ flash' \in [Addrs -> Cell]
      /\ \A a \in Addrs : flash'[a] = IF Offset(c, a) < SectorLen THEN Blank ELSE flash[a]
  BY <1>1, <1>2, ErasedCells
<1>4. /\ c \in Nat /\ Offset(c, c) = 0
      /\ \A s \in Starts : s \in Addrs /\ Offset(c, s) \in Nat /\ (s # c => Offset(c, s) >= SectorLen)
  BY <1>1, Sectors, SectorsApart, OffsetRange DEF Offset
<1>5. \A a \in Addrs : Offset(c, a) >= SectorLen => flash'[a] = flash[a]
  BY <1>1, <1>3, OffsetRange, Consts
<1>6. \A s \in Headers' : Offset(c, s) >= SectorLen
  <2> SUFFICES ASSUME NEW s \in Headers', ~(Offset(c, s) >= SectorLen) PROVE FALSE
    OBVIOUS
  <2>1. s \in Starts /\ flash'[s].is = "head"
    BY DEF Headers, Valid
  <2>2. flash'[s] = Blank
    BY <1>3, <1>4, <2>1, Consts
  <2> QED BY <2>1, <2>2 DEF Blank
<1>7. \A s \in Headers : Offset(c, s) < SectorLen \/ Offset(c, s) + SpanOf(s) <= Size
  BY <1>1, <1>4, Consts
<1>8. /\ Headers' = {s \in Headers : Offset(c, s) >= SectorLen}
      /\ \A s \in Headers' : flash'[s] = flash[s] /\ (WholeAt(s) => WholeAt(s)')
  <2> HIDE DEF c
  <2> QED BY <1>1, <1>3, <1>5, <1>6, <1>7, Overwritten, Consts
<1>9. Headers' = Headers \ {c}
  BY <1>4, <1>8, Consts DEF Headers
<1>10. \A s \in Headers' : /\ s \in Headers /\ WholeAt(s)'
                         /\ Offset(c, s) >= SectorLen /\ Offset(c, s) + SpanOf(s) <= Size
  BY <1>1, <1>6, <1>8, <1>9 DEF RInv
<1> QED BY <1>1, <1>2, <1>8, <1>9, <1>10

LEMMA CreateRInv == ASSUME IInv, RInv, NEW own \in {0, WavLen}, Create(own), ~astray' PROVE RInv'
<1> DEFINE c == Wrap(CheckHead(pfs.sector))
<1>1. /\ mode' = "write" /\ UNCHANGED <<mounted, pfs>> /\ last' = pfs.index + 1
      /\ file'.index = pfs.index + 1 /\ file'.sector = c /\ file'.rw_p = HeadLen
      /\ mounted /\ pfs.index \in Nat /\ head' = own
      /\ c \in Starts => file'.len = SectorLen
  BY DEF Create, IInv, TypeOK
<1>2. /\ c \in Starts /\ Rising(c) /\ Headers' = Headers \ {c}
      /\ \A s \in Headers' : /\ flash'[s] = flash[s] /\ WholeAt(s)'
                            /\ Offset(c, s) >= SectorLen
                            /\ Offset(c, s) + SpanOf(s) <= Size
  BY CreatedRing
<1> HIDE DEF c
<1>3. /\ Headers' \subseteq Headers
      /\ \A s \in Headers' : Idx(s)' = Idx(s) /\ SpanOf(s)' = SpanOf(s) /\ Idx(s) \in Nat
  BY <1>2, HeaderFacts DEF Idx, SpanOf
<1>4. NewestInRam /\ (\A s \in Headers : Idx(s) <= pfs.index)
  <2>1. pfs.sector # 0
    <3> SUFFICES ASSUME pfs.sector = 0 PROVE FALSE
      OBVIOUS
    <3>1. c = 0
      BY PlacesAre, Bounds DEF c, CheckHead, Valid, Wrap
    <3> QED BY <1>2, <3>1, PlacesAre
  <2> QED BY <1>1, <2>1 DEF RInv, NewestInRam, NewestAt
<1>5. NewestInRam'
  <2>1. PICK d, i, l : d = pfs.sector /\ i = pfs.index /\ l = last'
    OBVIOUS
  <2>2. \A s \in Headers : Idx(s) < l /\ Idx(s) # l
    BY <1>1, <1>4, <2>1, HeaderFacts
  <2>3. NewestAt(d, i, l)
    BY <1>4, <2>1, <2>2 DEF NewestInRam, NewestAt
  <2>4. NewestAt(d, i, l)'
    BY <1>2, <1>3, <2>2, <2>3, NewestKept
  <2> QED BY <1>1, <2>1, <2>4 DEF NewestInRam, NewestAt, Behind, Top
<1>6. (\A s \in Headers : Idx(s) <= last)'
  BY <1>1, <1>3, <1>4
<1>7. Writing'
  <2>1. \A s \in Headers' : /\ Offset(file'.sector, s) >= file'.len
                            /\ Offset(file'.sector, s) + SpanOf(s)' <= Size
                            /\ Idx(s)' < file'.index
    BY <1>1, <1>2, <1>3, <1>4
  <2>2. \A s, t \in Headers' : Offset(file'.sector, s) < Offset(file'.sector, t) => Idx(s)' < Idx(t)'
    BY <1>1, <1>2, <1>3 DEF Rising
  <2>3. \A a \in Addrs : ~(HeadLen + own <= Offset(c, a) /\ Offset(c, a) < HeadLen)
    BY <1>2, OffsetRange, Consts
  <2> QED BY <1>1, <1>2, <2>1, <2>2, <2>3 DEF Writing, Rising
<1> QED BY <1>1, <1>2, <1>5, <1>6, <1>7, Fewer DEF RInv

-----------------------------------------------------------------------------
\* The walk of recfile_index_scan

LEMMA LeastNatural ==
  ASSUME NEW S \in SUBSET Nat, S # {}
  PROVE  \E n \in S : \A k \in S : n <= k
<1>1. PICK n \in S : \A k \in S : <<k, n>> \notin OpToRel(<, Nat)
  BY NatLessThanWellFounded, WFMin
<1>2. \A k \in S : ~(k < n)
  BY <1>1 DEF OpToRel
<1> QED BY <1>2

WalkLen == 2 * (Last + 1)

\* A part of the walk: its first n steps.
Walks(g, n) == /\ g = [k \in 0 .. n |-> g[k]]
               /\ g[0] = pfs.sector
               /\ \A k \in 1 .. n : g[k] = StepFrom(g[k - 1])

LEMMA WalkIsLonger ==
  ASSUME NEW g, NEW n \in Nat, n > 0, Walks(g, n - 1)
  PROVE  \E h : Walks(h, n)
<1> DEFINE h == [k \in 0 .. n |-> IF k = n THEN StepFrom(g[n - 1]) ELSE g[k]]
<1>1. n \in 0 .. n /\ n - 1 \in 0 .. n /\ 0 \in 0 .. n /\ n # 0 /\ n - 1 # n
  OBVIOUS
<1>2. h[n] = StepFrom(g[n - 1]) /\ h[n - 1] = g[n - 1] /\ h[0] = g[0]
  BY <1>1
<1>3. ASSUME NEW k \in 1 .. n PROVE h[k] = StepFrom(h[k - 1])
  <2>1. CASE k = n
    BY <1>2, <2>1
  <2>2. CASE k # n
    <3>1. k \in 1 .. n - 1 /\ k \in 0 .. n /\ k - 1 \in 0 .. n /\ k - 1 # n
      BY <2>2
    <3>2. h[k] = g[k] /\ h[k - 1] = g[k - 1]
      BY <2>2, <3>1
    <3> QED BY <3>1, <3>2 DEF Walks
  <2> QED BY <2>1, <2>2
<1>4. h = [k \in 0 .. n |-> h[k]]
  OBVIOUS
<1> HIDE DEF h
<1>5. Walks(h, n)
  BY <1>2, <1>3, <1>4 DEF Walks
<1> QED BY <1>5

LEMMA WalkIs == /\ Walk[0] = pfs.sector
                /\ \A k \in 1 .. WalkLen : Walk[k] = StepFrom(Walk[k - 1])
<1>0. WalkLen \in Nat
  BY Consts DEF WalkLen
<1>1. \E g : Walks(g, WalkLen)
  <2> DEFINE Bad == {n \in 0 .. WalkLen : ~\E g : Walks(g, n)}
  <2> SUFFICES ASSUME Bad # {} PROVE FALSE
    BY <1>0
  <2>0. Bad \in SUBSET Nat
    BY <1>0
  <2>1. PICK n \in Bad : \A k \in Bad : n <= k
    <3> HIDE DEF Bad
    <3> QED BY <2>0, LeastNatural
  <2>2. n \in 0 .. WalkLen /\ ~\E g : Walks(g, n)
    OBVIOUS
  <2>3. n # 0
    <3> DEFINE g == [k \in 0 .. 0 |-> pfs.sector]
    <3>1. Walks(g, 0)
      BY DEF Walks
    <3> QED BY <2>2, <3>1
  <2>4. n - 1 \in 0 .. WalkLen /\ ~(n <= n - 1) /\ n \in Nat /\ n > 0
    BY <1>0, <2>2, <2>3
  <2>5. n - 1 \notin Bad
    BY <2>1, <2>4
  <2>6. PICK g : Walks(g, n - 1)
    BY <2>4, <2>5
  <2> QED BY <2>2, <2>4, <2>6, WalkIsLonger
<1>2. PICK g : Walks(g, WalkLen)
  BY <1>1
<1>3. g = [k \in 0 .. WalkLen |-> IF k = 0 THEN pfs.sector ELSE StepFrom(g[k - 1])]
  <2>1. \A k \in 0 .. WalkLen : g[k] = IF k = 0 THEN pfs.sector ELSE StepFrom(g[k - 1])
    <3> TAKE k \in 0 .. WalkLen
    <3>1. g[0] = pfs.sector /\ \A j \in 1 .. WalkLen : g[j] = StepFrom(g[j - 1])
      BY <1>2 DEF Walks
    <3>2. k = 0 \/ k \in 1 .. WalkLen
      BY <1>0
    <3>3. ASSUME k \in 1 .. WalkLen PROVE k # 0
      BY <1>0, <3>3
    <3> QED BY <3>1, <3>2, <3>3
  <2>2. g = [k \in 0 .. WalkLen |-> g[k]]
    BY <1>2 DEF Walks
  <2> QED BY <2>1, <2>2
<1>4. Walk = [k \in 0 .. WalkLen |-> IF k = 0 THEN pfs.sector ELSE StepFrom(Walk[k - 1])]
  BY <1>3 DEF Walk, WalkLen
<1>5. \A k \in 0 .. WalkLen : Walk[k] = IF k = 0 THEN pfs.sector ELSE StepFrom(Walk[k - 1])
  BY <1>4
<1> QED BY <1>0, <1>5

-----------------------------------------------------------------------------
\* Closing, and the rest

\* The header of a close publishes the recording and spoils no other.
LEMMA ClosedRing ==
  ASSUME IInv, RInv, mode = "write", NEW p \in Nat, NEW own \in {0, head}, CloseAt(p, own),
         HeadLen <= p, p <= file.len, p <= file.rw_p + HeadLen,
         NEW c, c = file.sector
  PROVE  /\ c \in Starts /\ c \notin Headers
         /\ Headers' = Headers \cup {c}
         /\ \A s \in Headers : flash'[s] = flash[s] /\ WholeAt(s)'
         /\ flash'[c] = Header(file.index, p) /\ WholeAt(c)'
         /\ RoundUp(p) <= file.len /\ RoundUp(p) \in Nat
<1>1. /\ c \in Starts /\ file.len \in Nat /\ file.rw_p \in Nat /\ HeadLen <= file.rw_p
      /\ file.rw_p <= file.len /\ file.len <= Size /\ Whole(file.len) /\ file.index \in Nat
      /\ \A s \in Headers : Offset(c, s) >= file.len /\ Offset(c, s) + SpanOf(s) <= Size
      /\ file.len >= SectorLen
      /\ \A a \in Addrs : HeadLen + head <= Offset(c, a) /\ Offset(c, a) < file.rw_p
                          => flash[a] = Data(file.index, Offset(c, a))
      /\ \A a \in Addrs : \/ Offset(c, a) < HeadLen + head
                          \/ file.rw_p <= Offset(c, a) /\ Offset(c, a) < file.len
                          => flash[a] = Blank
  BY DEF IInv, TypeOK, WriteShape, RInv, Writing
<1>0. /\ own \in Nat /\ head \in Nat /\ own <= head /\ head <= WavLen /\ WavLen \in Nat
      /\ HeadLen + own <= SectorLen /\ HeadLen + head <= SectorLen
  BY Consts, HeadType DEF IInv, TypeOK
<1>2. flash' = Titled(p, own)
  BY DEF CloseAt
<1>3. \A a \in Addrs : flash'[a] = IF Offset(c, a) = 0 THEN Header(file.index, p)
                                  ELSE IF Offset(c, a) < HeadLen + own
                                       THEN Data(file.index, Offset(c, a))
                                  ELSE flash[a]
  BY <1>1, <1>2, TitledCells
<1>4. /\ c \in Nat /\ c \in Addrs /\ Offset(c, c) = 0 /\ Lo <= c /\ c + SectorLen <= Hi
      /\ \A s \in Starts : s \in Addrs /\ Offset(c, s) \in Nat /\ (s # c => Offset(c, s) >= SectorLen)
  BY <1>1, Sectors, SectorsApart, OffsetRange DEF Offset
<1>5. flash'[c] = Header(file.index, p) /\ c \notin Headers
  BY <1>1, <1>3, <1>4, Consts
<1>6. \A s \in Starts : s # c => flash'[s] = flash[s]
  BY <1>0, <1>3, <1>4, Consts
<1>7. Headers' = Headers \cup {c}
  <2>1. Valid(c)'
    BY <1>1, <1>5, Bounds DEF Valid, Header
  <2>2. \A s \in Starts : s # c => Valid(s)' = Valid(s)
    BY <1>6 DEF Valid
  <2> QED BY <1>1, <2>1, <2>2 DEF Headers
<1>8. ASSUME NEW s \in Headers PROVE flash'[s] = flash[s] /\ WholeAt(s)'
  <2>1. flash'[s] = flash[s] /\ WholeAt(s)
    BY <1>5, <1>6, <1>8 DEF Headers, RInv
  <2>2. ASSUME NEW q \in HeadLen .. flash[s].at - 1
        PROVE  flash'[Wrap(s + q)] = flash[Wrap(s + q)]
    <3>1. Wrap(s + q) \in Addrs /\ Offset(c, Wrap(s + q)) = Offset(c, s) + q
      BY <1>1, CellsOfRecording
    <3>2. q \in Nat /\ q > 0 /\ Offset(c, s) \in Nat /\ Offset(c, s) >= HeadLen + own
      <4>1. flash[s].at \in Nat /\ s \in Starts
        BY HeaderFacts
      <4> QED BY <4>1, <1>0, <1>1, <1>4, Consts
    <3> QED BY <1>0, <1>3, <3>1, <3>2, Consts
  <2> QED BY <2>1, <2>2 DEF WholeAt
<1>9. WholeAt(c)'
  <2>1. flash'[c].at = p /\ flash'[c].index = file.index
    BY <1>5 DEF Header
  <2>2. ASSUME NEW q \in HeadLen .. p - 1
        PROVE  \/ flash'[Wrap(c + q)] = Data(file.index, q)
               \/ /\ flash'[Wrap(c + q)] = Blank
                  /\ q < HeadLen + WavLen \/ q >= p - HeadLen
    <3>1. q \in Nat /\ HeadLen <= q /\ q < p /\ q < Size /\ q # 0
      BY <1>1, Consts, Bounds
    <3>2. Wrap(c + q) \in Addrs /\ Offset(c, Wrap(c + q)) = q
      BY <1>4, <3>1, Bounds, Consts DEF Wrap, Offset, Addrs
    <3>3. flash'[Wrap(c + q)] = IF q < HeadLen + own THEN Data(file.index, q)
                                ELSE flash[Wrap(c + q)]
      BY <1>3, <3>1, <3>2
    <3>4. CASE q < HeadLen + own
      BY <3>3, <3>4
    <3>5. CASE ~(q < HeadLen + own) /\ q < HeadLen + head
      <4>1. flash[Wrap(c + q)] = Blank /\ q < HeadLen + WavLen
        BY <1>0, <1>1, <3>1, <3>2, <3>5, Consts
      <4> QED BY <3>3, <3>5, <4>1
    <3>6. CASE ~(q < HeadLen + own) /\ HeadLen + head <= q /\ q < file.rw_p
      <4>1. flash[Wrap(c + q)] = Data(file.index, q)
        BY <1>1, <3>2, <3>6
      <4> QED BY <3>3, <3>6, <4>1
    <3>7. CASE ~(q < HeadLen + own) /\ file.rw_p <= q
      <4>1. q < file.len /\ q >= p - HeadLen
        BY <1>1, <3>1, <3>7, Consts
      <4>2. flash[Wrap(c + q)] = Blank
        BY <1>1, <3>2, <3>7, <4>1
      <4> QED BY <3>3, <3>7, <4>1, <4>2
    <3> QED BY <1>0, <1>1, <3>1, <3>4, <3>5, <3>6, <3>7, Consts
  <2> QED BY <2>1, <2>2 DEF WholeAt
<1>10. RoundUp(p) <= file.len /\ RoundUp(p) \in Nat
  BY <1>1, Rounding, Consts
<1> QED BY <1>1, <1>5, <1>7, <1>8, <1>9, <1>10

LEMMA CloseRInv ==
  ASSUME IInv, RInv, mode = "write", NEW p \in Nat, NEW own \in {0, head}, CloseAt(p, own),
         HeadLen <= p, p <= file.len, p <= file.rw_p + HeadLen
  PROVE  RInv'
<1> PICK c : c = file.sector
  OBVIOUS
<1>1. /\ c \in Starts /\ c \notin Headers /\ Headers' = Headers \cup {c}
      /\ \A s \in Headers : flash'[s] = flash[s] /\ WholeAt(s)'
      /\ flash'[c] = Header(file.index, p) /\ WholeAt(c)'
      /\ RoundUp(p) <= file.len /\ RoundUp(p) \in Nat
  BY ClosedRing
<1>2. /\ mode' = "none" /\ UNCHANGED <<mounted, last>>
      /\ pfs'.sector = c /\ pfs'.index = file.index /\ file.index = last
      /\ file.len \in Nat /\ file.index \in Nat
  BY DEF CloseAt, Shut, IInv, TypeOK, RInv, Writing
<1>3. /\ \A s \in Headers : /\ Idx(s)' = Idx(s) /\ SpanOf(s)' = SpanOf(s) /\ flash'[s].at = flash[s].at
                           /\ Idx(s) \in Nat /\ SpanOf(s) \in Nat /\ s \in Starts /\ s # c
                           /\ Offset(c, s) >= file.len /\ Offset(c, s) + SpanOf(s) <= Size
                           /\ Idx(s) < file.index
                           /\ Offset(c, s) \in Nat /\ Offset(s, c) = Size - Offset(c, s)
      /\ Rising(c)
  BY <1>1, HeaderFacts, SectorsApart, OffsetRange DEF Idx, SpanOf, RInv, Writing
<1>4. Idx(c)' = file.index /\ SpanOf(c)' = RoundUp(p) /\ flash'[c].at = p
  BY <1>1 DEF Idx, SpanOf, Header
<1>5. Disjoint'
  <2>1. \A s \in Headers' : flash'[s].at >= HeadLen
    BY <1>1, <1>3, <1>4 DEF RInv, Disjoint
  <2>2. ASSUME NEW s \in Headers', NEW t \in Headers', s # t
        PROVE  Offset(t, s) >= SpanOf(t)'
    <3>1. CASE s \in Headers /\ t \in Headers
      BY <2>2, <3>1, <1>3 DEF RInv, Disjoint
    <3>2. CASE s = c /\ t \in Headers
      BY <3>2, <1>3, Bounds
    <3>3. CASE s \in Headers /\ t = c
      BY <3>3, <1>1, <1>2, <1>3, <1>4
    <3> QED BY <2>2, <3>1, <3>2, <3>3, <1>1
  <2> QED BY <2>1, <2>2 DEF Disjoint
<1>6. Behind(c)' /\ Top(c)'
  <2>1. \A s \in Headers' : s # c => Offset(s, c) >= SpanOf(s)'
    BY <1>1, <1>3, Bounds
  <2>2. \A s, t \in Headers' : s # c /\ t # c /\ Offset(c, s) < Offset(c, t) => Idx(s)' < Idx(t)'
    BY <1>1, <1>3 DEF Rising
  <2>3. \A s \in Headers' : s # c => Idx(s)' < Idx(c)'
    BY <1>1, <1>3, <1>4
  <2> QED BY <2>1, <2>2, <2>3 DEF Behind, Top
<1>7. (\A s \in Headers : Idx(s) <= pfs.index /\ Idx(s) <= last)'
  BY <1>1, <1>2, <1>3, <1>4
<1>8. NewestInRam'
  <2>1. c \in Headers' /\ c \in Starts /\ Idx(c)' = pfs'.index
    BY <1>1, <1>2, <1>4
  <2> QED BY <1>2, <1>6, <1>7, <2>1 DEF NewestInRam, NewestAt, Behind, Top
<1>9. \A s \in Headers' : WholeAt(s)'
  BY <1>1
<1>10. \E n \in Starts : Top(n)'
  BY <1>1, <1>6
<1> QED BY <1>2, <1>5, <1>7, <1>8, <1>9, <1>10 DEF RInv

\* Nothing is erased or programmed: the newest one is where it was.
LEMMA NewestStays == ASSUME flash' = flash, NEW c, NEW i, NEW l, NewestAt(c, i, l)
                     PROVE  NewestAt(c, i, l)'
BY SameFlash DEF NewestAt

LEMMA NewestUnchanged ==
  ASSUME flash' = flash, UNCHANGED <<pfs, last>>, NewestInRam PROVE NewestInRam'
<1> PICK c, i, l : c = pfs.sector /\ i = pfs.index /\ l = last
  OBVIOUS
<1>1. NewestAt(c, i, l)'
  BY NewestStays DEF NewestInRam
<1> QED BY <1>1 DEF NewestInRam, NewestAt, Behind, Top

LEMMA ReadingUnchanged ==
  ASSUME flash' = flash, last' = last, Reading,
         file'.sector = file.sector, file'.index = file.index
  PROVE  Reading'
<1> PICK c, i, l : c = file.sector /\ i = file.index /\ l = last
  OBVIOUS
<1>1. NewestAt(c, i, l)'
  BY NewestStays DEF Reading
<1> QED BY <1>1 DEF Reading, NewestAt, Behind, Top

\* No header and no recording is anywhere else when the flash is the same.
LEMMA KeptRInv ==
  ASSUME RInv, flash' = flash, mode' # "write",
         mounted' => NewestInRam' /\ (\A s \in Headers : Idx(s) <= last)',
         mode' = "read" => Reading'
  PROVE  RInv'
BY SameFlash DEF RInv

\* A recording that the search does not find is not there.
LEMMA NotFound ==
  ASSUME IInv, NewestInRam, \A s \in Headers : Idx(s) <= last, Hits(last) = {},
         NEW s \in Headers
  PROVE  Idx(s) # last
<1> SUFFICES ASSUME Idx(s) = last PROVE FALSE
  OBVIOUS
<1>1. /\ pfs.sector \in Starts /\ Top(pfs.sector) /\ pfs.sector \in Headers
  <2>1. ~(\A t \in Headers : Idx(t) # last) /\ ~(\A t \in Headers : Idx(t) < last)
    <3>1. last \in Nat
      BY DEF IInv, TypeOK
    <3> QED BY <3>1
  <2> QED BY <2>1 DEF NewestInRam, NewestAt
<1>2. s = pfs.sector
  <2> SUFFICES ASSUME s # pfs.sector PROVE FALSE
    OBVIOUS
  <2>1. Idx(s) < Idx(pfs.sector) /\ Idx(pfs.sector) <= last
    BY <1>1 DEF Top
  <2>2. Idx(s) \in Nat /\ Idx(pfs.sector) \in Nat
    BY <1>1, HeaderFacts
  <2> QED BY <2>1, <2>2
<1>3. Hit(Walk[0], last)
  BY <1>2, WalkIs DEF Hit, Headers, Idx
<1>4. 0 \in 0 .. 2 * (Last + 1) /\ 0 .. 0 - 1 = {}
  BY Consts
<1>5. 0 \in Hits(last)
  BY <1>3, <1>4 DEF Hits
<1> QED BY <1>5

LEMMA OpenReadRInv == IInv /\ RInv /\ OpenRead => RInv'
<1> SUFFICES ASSUME IInv, RInv, OpenRead PROVE RInv'
  OBVIOUS
<1>1. /\ mode' \in {"read", "search"} /\ UNCHANGED <<flash, mounted, pfs, last>> /\ mounted
      /\ NewestInRam /\ \A s \in Headers : Idx(s) <= last
  BY DEF OpenRead, RInv
<1>2. NewestInRam' /\ (\A s \in Headers : Idx(s) <= last)'
  BY <1>1, SameFlash, NewestUnchanged
<1>3. ASSUME NEW w, Valid(w), flash[w].index = last, file'.sector = w, file'.index = last
      PROVE  Reading'
  <2>1. w \in Headers /\ w \in Starts /\ Idx(w) = last
    BY <1>3 DEF Valid, Headers, Idx
  <2>2. Top(w)
    BY <1>1, <2>1, TopIsNewest DEF RInv
  <2>3. Behind(w)
    BY <2>1 DEF Behind, RInv, Disjoint
  <2> PICK l : l = last
    OBVIOUS
  <2>4. NewestAt(w, l, l)
    BY <1>1, <2>1, <2>2, <2>3 DEF NewestAt
  <2>5. NewestAt(w, l, l)'
    BY <1>1, <2>4, NewestStays
  <2> QED BY <1>1, <1>3, <2>5 DEF Reading, NewestAt, Behind, Top
<1>4. CASE Hits(last) = {} /\ file' = [NoFile EXCEPT !.rw_p = HeadLen]
  <2> PICK l : l = last
    OBVIOUS
  <2>1. NewestAt(0, 0, l)
    BY <1>1, <1>4, NotFound DEF NewestAt
  <2>2. NewestAt(0, 0, l)'
    BY <1>1, <2>1, NewestStays
  <2>3. file'.sector = 0 /\ file'.index = 0
    BY <1>4 DEF NoFile
  <2>4. Reading'
    BY <1>1, <2>2, <2>3 DEF Reading, NewestAt, Behind, Top
  <2> QED BY <1>1, <1>2, <2>4, KeptRInv
<1>5. CASE mode' = "search"
  BY <1>1, <1>2, <1>5, KeptRInv
<1>6. CASE \E w : /\ Valid(w) /\ flash[w].index = last
                  /\ file'.sector = w /\ file'.index = last
  BY <1>1, <1>2, <1>3, <1>6, KeptRInv
<1>7. \/ Hits(last) = {} /\ file' = [NoFile EXCEPT !.rw_p = HeadLen]
      \/ mode' = "search"
      \/ \E w : /\ Valid(w) /\ flash[w].index = last
                /\ file'.sector = w /\ file'.index = last
  BY DEF OpenRead, Hits, Hit
<1> QED BY <1>4, <1>5, <1>6, <1>7

LEMMA ReaderRInv ==
  ASSUME IInv, RInv,
         \/ \E b \in Sizes : Read(b)
         \/ \E off \in Offsets : SeekSet(off) \/ SeekCur(off)
  PROVE  RInv'
<1>1. /\ mode = "read" /\ UNCHANGED <<flash, mounted, pfs, last, mode>>
      /\ file'.sector = file.sector /\ file'.index = file.index
  BY DEF Read, SeekSet, SeekCur, IInv, TypeOK
<1>2. mounted => NewestInRam' /\ (\A s \in Headers : Idx(s) <= last)'
  BY <1>1, SameFlash, NewestUnchanged DEF RInv
<1>3. Reading'
  BY <1>1, ReadingUnchanged DEF RInv
<1> QED BY <1>1, <1>2, <1>3, KeptRInv

LEMMA CloseReadRInv == IInv /\ RInv /\ CloseRead => RInv'
<1> SUFFICES ASSUME IInv, RInv, CloseRead PROVE RInv'
  OBVIOUS
<1>1. /\ mode = "read" /\ mode' = "none" /\ UNCHANGED <<flash, mounted, last>>
      /\ pfs'.sector = file.sector /\ pfs'.index = file.index /\ mounted
      /\ Reading /\ \A s \in Headers : Idx(s) <= last
  BY DEF CloseRead, Shut, IInv, TypeOK, RInv
<1> PICK c, i, l : c = file.sector /\ i = file.index /\ l = last
  OBVIOUS
<1>2. NewestAt(c, i, l)'
  BY <1>1, NewestStays DEF Reading
<1>3. NewestInRam'
  BY <1>1, <1>2 DEF NewestInRam, NewestAt, Behind, Top
<1>4. (\A s \in Headers : Idx(s) <= last)'
  BY <1>1, SameFlash
<1> QED BY <1>1, <1>3, <1>4, KeptRInv

LEMMA IdleRInv == IInv /\ RInv /\ (Unmount \/ PowerLoss \/ Abandon \/ UNCHANGED vars) => RInv'
<1> SUFFICES ASSUME IInv, RInv, Unmount \/ PowerLoss \/ Abandon \/ UNCHANGED vars PROVE RInv'
  OBVIOUS
<1>1. CASE Unmount \/ PowerLoss
  BY <1>1, KeptRInv DEF Unmount, PowerLoss, Forget
<1>2. CASE Abandon
  <2>1. /\ mode' = "none" /\ UNCHANGED <<flash, mounted, pfs, last>>
    BY <1>2 DEF Abandon, Shut
  <2>2. mounted => NewestInRam' /\ (\A s \in Headers : Idx(s) <= last)'
    BY <2>1, SameFlash, NewestUnchanged DEF RInv
  <2> QED BY <2>1, <2>2, KeptRInv
<1>3. CASE UNCHANGED vars
  <2>1. UNCHANGED <<flash, mounted, pfs, last, mode, file, head>>
    BY <1>3 DEF vars
  <2>2. mounted => NewestInRam' /\ (\A s \in Headers : Idx(s) <= last)'
    BY <2>1, SameFlash, NewestUnchanged DEF RInv
  <2>3. mode = "read" => Reading'
    BY <2>1, ReadingUnchanged DEF RInv
  <2>4. mode = "write" => Writing'
    BY <2>1, SameFlash DEF Writing, Rising, Idx, SpanOf, RInv
  <2> QED BY <2>1, <2>2, <2>3, <2>4, SameFlash DEF RInv
<1> QED BY <1>1, <1>2, <1>3

LEMMA DeleteRing == ASSUME IInv, RInv, Delete, NEW c, c = file.sector
                    PROVE  /\ Headers' = Headers \ {c}
                           /\ \A s \in Headers' : flash'[s] = flash[s] /\ WholeAt(s)'
<1>0. CASE c \notin Starts
  <2>1. flash' = flash /\ Headers' = Headers /\ c \notin Headers
    BY <1>0, SameFlash DEF Delete, Headers
  <2> QED BY <2>1, SameFlash DEF RInv
<1> SUFFICES ASSUME c \in Starts
             PROVE  /\ Headers' = Headers \ {c}
                    /\ \A s \in Headers' : flash'[s] = flash[s] /\ WholeAt(s)'
  BY <1>0
<1>1. /\ c \in Starts /\ c # 0 /\ c \in Nat /\ c \in Addrs
      /\ flash' = [a \in Addrs |-> IF Offset(c, a) < HeadLen THEN Zero ELSE flash[a]]
  BY Sectors, Bounds DEF Delete, Untitled
<1>2. Behind(c)
  BY <1>1 DEF Delete, RInv, Reading, NewestAt
<1>3. \A a \in Addrs : flash'[a] = IF Offset(c, a) < HeadLen THEN Zero ELSE flash[a]
  BY <1>1
<1>4. /\ Offset(c, c) = 0
      /\ \A s \in Starts : s \in Addrs /\ Offset(c, s) \in Nat /\ (s # c => Offset(c, s) >= SectorLen)
  BY <1>1, Sectors, SectorsApart, OffsetRange DEF Offset
<1>5. \A s \in Starts : s # c => flash'[s] = flash[s] /\ Valid(s)' = Valid(s)
  BY <1>3, <1>4, Consts DEF Valid
<1>6. ~Valid(c)'
  BY <1>1, <1>3, <1>4, Consts DEF Valid, Zero
<1>7. Headers' = Headers \ {c}
  BY <1>5, <1>6 DEF Headers
<1>8. ASSUME NEW s \in Headers' PROVE flash'[s] = flash[s] /\ WholeAt(s)'
  <2>1. s \in Headers /\ s # c /\ s \in Starts /\ flash'[s] = flash[s] /\ WholeAt(s)
    BY <1>5, <1>7 DEF Headers, RInv
  <2>2. Offset(c, s) + SpanOf(s) <= Size
    <3>1. /\ Offset(s, c) >= SpanOf(s) /\ Offset(s, c) = Size - Offset(c, s)
          /\ Offset(c, s) \in Nat /\ SpanOf(s) \in Nat
      BY <1>1, <1>2, <1>4, <2>1, SectorsApart, HeaderFacts DEF Behind
    <3> QED BY <3>1, Bounds
  <2>3. ASSUME NEW q \in HeadLen .. flash[s].at - 1
        PROVE  flash'[Wrap(s + q)] = flash[Wrap(s + q)]
    <3>1. Wrap(s + q) \in Addrs /\ Offset(c, Wrap(s + q)) = Offset(c, s) + q
      BY <1>1, <2>1, <2>2, CellsOfRecording
    <3>2. q \in Nat /\ Offset(c, s) \in Nat /\ Offset(c, s) >= HeadLen
      <4>1. flash[s].at \in Nat
        BY <2>1, HeaderFacts
      <4> QED BY <4>1, <1>4, <2>1, Consts
    <3> QED BY <1>3, <3>1, <3>2, Consts
  <2> QED BY <2>1, <2>3 DEF WholeAt
<1> QED BY <1>7, <1>8

LEMMA DeleteRInv == IInv /\ RInv /\ Delete => RInv'
<1> SUFFICES ASSUME IInv, RInv, Delete PROVE RInv'
  OBVIOUS
<1> PICK c, i, l : c = file.sector /\ i = file.index /\ l = last
  OBVIOUS
<1>1. /\ Headers' = Headers \ {c} /\ Headers' \subseteq Headers
      /\ \A s \in Headers' : /\ flash'[s] = flash[s] /\ WholeAt(s)'
                            /\ Idx(s)' = Idx(s) /\ SpanOf(s)' = SpanOf(s)
  BY DeleteRing DEF Idx, SpanOf
<1>2. /\ mode = "read" /\ UNCHANGED <<mounted, pfs, last, mode, file>>
      /\ mounted /\ NewestInRam /\ (\A s \in Headers : Idx(s) <= last) /\ Reading
  BY DEF Delete, IInv, TypeOK, RInv
<1>3. c \in Headers => \A s \in Headers' : Idx(s) < l
  <2> SUFFICES ASSUME c \in Headers, NEW s \in Headers' PROVE Idx(s) < l
    OBVIOUS
  <2>1. c # 0
    BY HeaderFacts, PlacesAre
  <2>2. Idx(s) < Idx(c) /\ Idx(c) <= l /\ s \in Headers
    BY <1>1, <1>2, <2>1 DEF Reading, NewestAt, Top
  <2>3. Idx(s) \in Nat /\ Idx(c) \in Nat /\ l \in Nat
    BY <2>2, HeaderFacts DEF IInv, TypeOK
  <2> QED BY <2>2, <2>3
<1>4. NewestInRam'
  <2> PICK d, j : d = pfs.sector /\ j = pfs.index
    OBVIOUS
  <2>1. NewestAt(d, j, l)
    BY <1>2 DEF NewestInRam
  <2>2. d \in Headers /\ d \notin Headers' => d = c
    BY <1>1
  <2>3. NewestAt(d, j, l)'
    BY <1>1, <1>3, <2>1, <2>2, NewestKept
  <2> QED BY <1>2, <2>3 DEF NewestInRam, NewestAt, Behind, Top
<1>5. Reading'
  <2>1. NewestAt(c, i, l)
    BY <1>2 DEF Reading
  <2>2. NewestAt(c, i, l)'
    BY <1>1, <1>3, <2>1, NewestKept
  <2> QED BY <1>2, <2>2 DEF Reading, NewestAt, Behind, Top
<1> QED BY <1>1, <1>2, <1>4, <1>5, Fewer DEF RInv

LEMMA ClearAllRInv == IInv /\ RInv /\ ClearAll => RInv' /\ Headers' = {}
<1> SUFFICES ASSUME IInv, RInv, ClearAll PROVE RInv' /\ Headers' = {}
  OBVIOUS
<1>1. \A s \in Starts : flash'[s] = Zero
  BY Sectors, Consts DEF ClearAll
<1>2. Headers' = {}
  BY <1>1 DEF Headers, Valid, Zero
<1>3. Lo \in Starts
  BY Consts DEF Lo, Starts
<1>4. mode' = "none" /\ pfs' = EmptyPfs
  BY DEF ClearAll
<1> QED BY <1>2, <1>3, <1>4 DEF RInv, Disjoint, Top, NewestInRam, NewestAt, Behind, EmptyPfs

THEOREM InitRInv == Init => RInv
<1> SUFFICES ASSUME Init PROVE RInv
  OBVIOUS
<1>1. Headers = {}
  BY Sectors DEF Init, Headers, Valid, Blank
<1>2. Lo \in Starts
  BY Consts DEF Lo, Starts
<1> QED BY <1>1, <1>2 DEF Init, RInv, Disjoint, Top

LEMMA NextRInv == IInv /\ RInv /\ [Next]_vars /\ ~astray' => RInv'
<1> SUFFICES ASSUME IInv, RInv, [Next]_vars, ~astray' PROVE RInv'
  OBVIOUS
<1>1. CASE Mount
  BY <1>1, MountRInv
<1>2. CASE Unmount \/ PowerLoss \/ Abandon \/ UNCHANGED vars
  BY <1>2, IdleRInv
<1>3. ASSUME NEW own \in {0, WavLen}, Create(own) PROVE RInv'
  BY <1>3, CreateRInv
<1>4. ASSUME NEW cut \in Cuts, NEW own \in {0, WavLen}, SeekEndAndClose(cut, own) PROVE RInv'
  <2>1. PICK p \in Nat : /\ mode = "write" /\ own \in {0, head} /\ CloseAt(p, own)
                         /\ HeadLen <= p /\ p <= file.len /\ p <= file.rw_p + HeadLen
    BY <1>4, ClosePosition
  <2> QED BY <2>1, CloseRInv
<1>5. CASE CloseRead
  BY <1>5, CloseReadRInv
<1>6. CASE OpenRead
  BY <1>6, OpenReadRInv
<1>7. CASE Delete
  BY <1>7, DeleteRInv
<1>8. CASE ClearAll
  BY <1>8, ClearAllRInv
<1>9. ASSUME NEW b \in Sizes, Write(b) \/ TornWrite(b) \/ Spill(b) PROVE RInv'
  BY <1>9, WriteRInv, TornRInv, NoSpill
<1>10. CASE \/ \E b \in Sizes : Read(b)
            \/ \E off \in Offsets : SeekSet(off) \/ SeekCur(off)
  BY <1>10, ReaderRInv
<1>11. CASE UpdateHead
  BY <1>11 DEF UpdateHead
<1> QED BY <1>1, <1>2, <1>3, <1>4, <1>5, <1>6, <1>7, <1>8, <1>9, <1>10, <1>11 DEF Next

-----------------------------------------------------------------------------
\* What follows from the ring, until a recording goes astray

Ring == astray \/ (IInv /\ RInv)

LEMMA RingTheorem == Spec => [](TypeOK /\ Ring)
<1>1. Init => TypeOK /\ Ring
  BY InitType, InitIInv, InitRInv DEF Ring
<1>2. TypeOK /\ Ring /\ [Next]_vars => (TypeOK /\ Ring)'
  <2> SUFFICES ASSUME TypeOK, Ring, [Next]_vars PROVE TypeOK' /\ Ring'
    OBVIOUS
  <2>1. TypeOK'
    BY TypeStep
  <2>2. CASE ~astray'
    <3>1. ~astray
      BY <2>2, AstrayStays
    <3>2. IInv /\ RInv
      BY <3>1 DEF Ring
    <3>3. IInv' /\ RInv'
      BY <2>2, <3>2, NextIInv, NextRInv
    <3> QED BY <2>1, <3>3 DEF Ring
  <2> QED BY <2>1, <2>2 DEF Ring
<1> QED BY <1>1, <1>2, PTL DEF Spec

\* Every recording that can be found is whole, for every partition, number of
\* recordings and size of write, whatever was recorded, given up, deleted or
\* cut off by a loss of power since, and no byte is programmed twice.  A
\* recording of a WAV file whose header was updated while it was made, one that
\* was closed with more than its room, and one begun in front of the partition
\* end this (FlashIsSound).
THEOREM FlashSound == Spec => []FlashIsSound
<1>1. TypeOK /\ Ring => FlashIsSound
  <2> SUFFICES ASSUME Ring, ~astray PROVE RecordingsAreWhole /\ ProgramsErased
    BY DEF FlashIsSound
  <2>1. IInv /\ RInv
    BY DEF Ring
  <2>2. RecordingsAreWhole
    BY <2>1 DEF RInv, WholeAt, RecordingsAreWhole
  <2> QED BY <2>1, <2>2 DEF IInv
<1> QED BY <1>1, RingTheorem, PTL

\* The index in RAM is what a mount would find, also after recordings that were
\* not found: then it is 0, and the recording that was searched for is not on
\* the chip (pfs.index and pfs.sector against the headers).
THEOREM RamIsRight == Spec => []RamAgrees
<1>1. TypeOK /\ Ring => RamAgrees
  <2> SUFFICES ASSUME TypeOK, Ring, mounted, ~astray
               PROVE  \/ /\ pfs.sector = 0 /\ pfs.index = 0
                         /\ \A s \in Headers : flash[s].index # last
                      \/ /\ \A s \in Headers : flash[s].index <= pfs.index
                         /\ Valid(pfs.sector) =>
                              /\ flash[pfs.sector].index = pfs.index
                              /\ \E found \in SUBSET Headers :
                                   Seen(found) /\ pfs.sector \in found /\ Newest(pfs.sector, found)
    BY DEF RamAgrees
  <2>0. IInv /\ RInv /\ NewestInRam
    BY DEF Ring, RInv
  <2>1. CASE pfs.sector = 0
    <3>1. pfs.index = 0 /\ \A s \in Headers : flash[s].index # last
      BY <2>0, <2>1, PlacesAre DEF NewestInRam, NewestAt, Idx
    <3> QED BY <2>1, <3>1
  <2>2. CASE pfs.sector # 0
    <3>1. \A s \in Headers : flash[s].index <= pfs.index
      BY <2>0, <2>2 DEF NewestInRam, NewestAt, Idx
    <3>2. ASSUME Valid(pfs.sector)
          PROVE  /\ flash[pfs.sector].index = pfs.index
                 /\ \E found \in SUBSET Headers :
                      Seen(found) /\ pfs.sector \in found /\ Newest(pfs.sector, found)
      <4>1. pfs.sector \in Headers
        BY <3>2 DEF Headers, Valid
      <4>2. /\ Idx(pfs.sector) = pfs.index
            /\ \A s \in Headers : s # pfs.sector => Idx(s) < Idx(pfs.sector)
        BY <2>0, <2>2, <4>1 DEF NewestInRam, NewestAt, Top
      <4>3. Newest(pfs.sector, Headers)
        BY <2>0, <4>1, <4>2, HeaderFacts DEF Newest, Idx
      <4>4. Seen(Headers)
        BY <2>0, AllSeen DEF RInv
      <4> QED BY <4>1, <4>2, <4>3, <4>4 DEF Idx
    <3> QED BY <3>1, <3>2
  <2> QED BY <2>1, <2>2
<1> QED BY <1>1, RingTheorem, PTL

\* A mount counts all recordings and finds the newest.
THEOREM MountIsRight == Spec => MountFindsTheNewest
<1> DEFINE Found == ~mounted /\ mounted' /\ ~astray =>
                      /\ pfs'.total = Cardinality(Headers)
                      /\ Headers # {} => /\ pfs'.sector \in Headers
                                         /\ \A s \in Headers : flash[s].index <= pfs'.index
<1>1. TypeOK /\ Ring /\ [Next]_vars => [Found]_vars
  <2> SUFFICES ASSUME TypeOK, Ring, Next, ~mounted, mounted', ~astray
               PROVE  /\ pfs'.total = Cardinality(Headers)
                      /\ Headers # {} => /\ pfs'.sector \in Headers
                                         /\ \A s \in Headers : flash[s].index <= pfs'.index
    OBVIOUS
  <2>1. Mount
    BY DEF Next, Unmount, Create, SeekEndAndClose, CloseAt, Abandon, OpenRead, UpdateHead, Spill,
           CloseRead, Delete, ClearAll, PowerLoss, Write, TornWrite, Read, SeekSet, SeekCur, Forget,
           TypeOK
  <2>2. IInv /\ RInv
    BY DEF Ring
  <2> QED BY <2>1, <2>2, MountFacts DEF Idx
<1> QED BY <1>1, RingTheorem, PTL DEF Spec, MountFindsTheNewest

-----------------------------------------------------------------------------
\* The refinement

LEMMA SameShelf == Headers' = Headers /\ (\A s \in Headers : flash'[s] = flash[s])
                   => {flash[s].index : s \in Headers}' = {flash[s].index : s \in Headers}
OBVIOUS

\* The oldest recordings make room.
LEMMA OldestGo ==
  ASSUME IInv, NEW c \in Starts, Rising(c),
         \/ \E hi \in Nat : Headers' = {s \in Headers : Offset(c, s) >= hi}
         \/ Headers' = Headers \ {c},
         \A s \in Headers' : flash'[s] = flash[s]
  PROVE  Shelf!MakeRoom
<1> DEFINE shelf == {flash[s].index : s \in Headers}
<1>1. Headers' \subseteq Headers
  OBVIOUS
<1>2. shelf' \subseteq shelf
  BY <1>1
<1>3. ASSUME NEW s \in Headers, s \notin Headers', NEW t \in Headers' PROVE Idx(s) < Idx(t)
  <2>1. s \in Starts /\ t \in Starts /\ Offset(c, s) \in Nat /\ Offset(c, t) \in Nat /\ t \in Headers
    BY <1>1, <1>3, HeaderFacts, OffsetRange
  <2>2. Offset(c, s) < Offset(c, t)
    <3>1. CASE \E hi \in Nat : Headers' = {x \in Headers : Offset(c, x) >= hi}
      BY <1>3, <2>1, <3>1
    <3>2. CASE Headers' = Headers \ {c}
      <4>1. s = c /\ t # c /\ c \in Nat
        BY <1>3, <3>2, Sectors
      <4> QED BY <2>1, <4>1, SectorsApart, Consts DEF Offset
    <3> QED BY <3>1, <3>2
  <2> QED BY <2>1, <2>2 DEF Rising
<1>4. ASSUME NEW gone \in shelf \ shelf', NEW kept \in shelf' PROVE gone < kept
  <2>1. PICK s \in Headers : gone = Idx(s)
    BY <1>4 DEF Idx
  <2>2. PICK t \in Headers' : kept = flash'[t].index
    BY <1>4
  <2>3. s \notin Headers'
    BY <1>4, <2>1 DEF Idx
  <2>4. kept = Idx(t)
    BY <2>2 DEF Idx
  <2> QED BY <1>3, <2>1, <2>2, <2>3, <2>4
<1> QED BY <1>2, <1>4 DEF Shelf!MakeRoom

\* A close publishes a recording with a number above all others.
LEMMA Published ==
  ASSUME IInv, RInv, mode = "write", NEW p \in Nat, NEW own \in {0, head}, CloseAt(p, own),
         HeadLen <= p, p <= file.len, p <= file.rw_p + HeadLen
  PROVE  Shelf!Publish
<1> DEFINE shelf == {flash[s].index : s \in Headers}
<1> PICK c : c = file.sector
  OBVIOUS
<1>1. /\ Headers' = Headers \cup {c}
      /\ \A s \in Headers : flash'[s] = flash[s]
      /\ flash'[c] = Header(file.index, p)
  BY ClosedRing
<1>2. flash'[c].index = file.index
  BY <1>1 DEF Header
<1>3. shelf' = shelf \cup {file.index}
  BY <1>1, <1>2
<1>4. \A j \in shelf : j < file.index
  BY DEF RInv, Writing, Idx
<1> QED BY <1>3, <1>4 DEF Shelf!Publish

\* The index of the recording that is played is the largest.
LEMMA DeletedNewest == ASSUME IInv, RInv, Delete
                       PROVE  Shelf!DeleteNewest \/ UNCHANGED {flash[s].index : s \in Headers}
<1> DEFINE shelf == {flash[s].index : s \in Headers}
<1> PICK c : c = file.sector
  OBVIOUS
<1>1. /\ Headers' = Headers \ {c}
      /\ \A s \in Headers' : flash'[s] = flash[s]
  BY DeleteRing
<1>2. CASE c \notin Headers
  <2>1. Headers' = Headers
    BY <1>1, <1>2
  <2> QED BY <1>1, <2>1, SameShelf
<1>3. CASE c \in Headers
  <2>1. \A s \in Headers : s # c => Idx(s) < Idx(c)
    <3>1. c # 0
      BY <1>3, HeaderFacts, Sectors, Bounds
    <3> QED BY <1>3, <3>1 DEF Delete, RInv, Reading, NewestAt, Top
  <2>2. \A s \in Headers : Idx(s) \in Nat
    BY HeaderFacts
  <2>3. shelf' = shelf \ {Idx(c)}
    <3>1. shelf' = {flash[s].index : s \in Headers \ {c}}
      BY <1>1
    <3>2. \A s \in Headers : s # c => flash[s].index # Idx(c)
      BY <1>3, <2>1, <2>2 DEF Idx
    <3> QED BY <3>1, <3>2 DEF Idx
  <2>4. \A j \in shelf : j <= Idx(c)
    BY <1>3, <2>1, <2>2 DEF Idx
  <2>5. Idx(c) \in shelf
    BY <1>3 DEF Idx
  <2> QED BY <2>3, <2>4, <2>5 DEF Shelf!DeleteNewest
<1> QED BY <1>2, <1>3

LEMMA ShelfStep == ASSUME IInv, RInv, Next, ~astray'
                   PROVE  Shelf!ShelfNext \/ UNCHANGED {flash[s].index : s \in Headers}
<1> DEFINE shelf == {flash[s].index : s \in Headers}
<1>1. CASE flash' = flash
  BY <1>1 DEF Headers, Valid
<1>2. ASSUME NEW own \in {0, WavLen}, Create(own) PROVE Shelf!ShelfNext
  <2>1. PICK c : c = Wrap(CheckHead(pfs.sector))
    OBVIOUS
  <2>2. /\ c \in Starts /\ Rising(c) /\ Headers' = Headers \ {c}
        /\ \A s \in Headers' : flash'[s] = flash[s]
    BY <1>2, <2>1, CreatedRing
  <2> QED BY <2>2, OldestGo DEF Shelf!ShelfNext
<1>3. ASSUME NEW b \in Sizes, Write(b) \/ TornWrite(b) PROVE Shelf!MakeRoom
  <2>1. mode = "write" /\ IInv'
    BY <1>3, WriteIInv, TornIInv DEF Write, TornWrite
  <2>2. PICK upto \in Nat, n \in Nat :
          flash' = Written(upto, n) /\ file.rw_p + n <= Atleast(upto, file.len)
    <3>1. CASE Write(b)
      BY <2>1, <3>1, RoomBounds DEF Write, Atleast, IInv, TypeOK
    <3>2. CASE TornWrite(b)
      BY <3>2, TornIsWritten
    <3> QED BY <1>3, <3>1, <3>2
  <2>3. PICK c, hi : c = file.sector /\ hi = Atleast(upto, file.len)
    OBVIOUS
  <2>4. /\ c \in Starts /\ Rising(c) /\ hi \in Nat
    BY <2>1, <2>3 DEF RInv, Writing, Rising, Atleast, IInv, TypeOK
  <2>5. /\ Headers' = {s \in Headers : Offset(c, s) >= hi}
        /\ \A s \in Headers' : flash'[s] = flash[s]
    BY <2>1, <2>2, <2>3, WrittenRing DEF IInv, TypeOK
  <2> QED BY <2>4, <2>5, OldestGo
<1>4. ASSUME NEW cut \in Cuts, NEW own \in {0, WavLen}, SeekEndAndClose(cut, own)
      PROVE  Shelf!ShelfNext
  <2>1. PICK p \in Nat : /\ mode = "write" /\ own \in {0, head} /\ CloseAt(p, own)
                         /\ HeadLen <= p /\ p <= file.len /\ p <= file.rw_p + HeadLen
    BY <1>4, ClosePosition
  <2> QED BY <2>1, Published DEF Shelf!ShelfNext
<1>5. CASE Delete
  BY <1>5, DeletedNewest DEF Shelf!ShelfNext
<1>6. CASE ClearAll
  <2>1. shelf' = {}
    BY <1>6, ClearAllRInv
  <2> QED BY <2>1 DEF Shelf!ShelfNext, Shelf!MakeRoom
<1>7. ~UpdateHead
  BY DEF UpdateHead
<1>8. \/ flash' = flash \/ Delete \/ ClearAll
      \/ \E own \in {0, WavLen} : Create(own)
      \/ \E cut \in Cuts, own \in {0, WavLen} : SeekEndAndClose(cut, own)
      \/ \E b \in Sizes : Write(b) \/ TornWrite(b)
  BY <1>7 DEF Next, Mount, Unmount, Abandon, OpenRead, CloseRead, PowerLoss, Spill, Read, SeekSet, SeekCur
<1> QED BY <1>1, <1>2, <1>3, <1>4, <1>5, <1>6, <1>8 DEF Shelf!ShelfNext

\* The file system is a shelf of numbered recordings: a new one gets a number
\* above all others, and room is made by taking the oldest away, whatever is
\* given up, torn, deleted or lost, until a recording goes astray.
THEOREM ShelfImplemented == Spec => OldestGoFirst
<1> DEFINE shelf == {flash[s].index : s \in Headers}
<1>1. Init => Shelf!ShelfInit
  <2>1. Init => Headers = {}
    BY Sectors DEF Init, Headers, Valid, Blank
  <2> QED BY <2>1 DEF Init, Shelf!ShelfInit
<1>2. TypeOK /\ Ring /\ [Next]_vars => [Shelf!ShelfNext]_<<shelf, astray>>
  <2> SUFFICES ASSUME Ring, [Next]_vars
               PROVE  Shelf!ShelfNext \/ UNCHANGED <<shelf, astray>>
    OBVIOUS
  <2>1. CASE UNCHANGED vars
    BY <2>1 DEF vars, Headers, Valid
  <2>2. CASE astray'
    BY <2>2 DEF Shelf!ShelfNext
  <2>3. CASE Next /\ ~astray'
    <3>1. ~astray
      BY <2>3, AstrayStays
    <3>2. IInv /\ RInv
      BY <3>1 DEF Ring
    <3>3. Shelf!ShelfNext \/ UNCHANGED shelf
      BY <2>3, <3>2, ShelfStep
    <3>4. astray' = astray
      <4>1. astray \in BOOLEAN /\ astray' \in BOOLEAN
        BY <2>3, <3>2, TypeStep DEF IInv, TypeOK
      <4> QED BY <2>3, <3>1, <4>1
    <3> QED BY <3>3, <3>4
  <2> QED BY <2>1, <2>2, <2>3
<1> QED BY <1>1, <1>2, RingTheorem, PTL DEF Spec, OldestGoFirst, Shelf!ShelfSpec

-----------------------------------------------------------------------------
(***************************************************************************)
(* The search.  The walk goes from sector to sector, each at least one     *)
(* sector on, until the end of the partition, and from its beginning       *)
(* again: no recording reaches over the sector it started from, so that it *)
(* meets it, in two rounds at most.                                        *)
(***************************************************************************)
\* One step: on by a sector or more, or to the first sector; and not over a
\* sector that no recording reaches into.
LEMMA StepGoesOn ==
  ASSUME IInv, Disjoint, NEW t \in Starts
  PROVE  /\ StepFrom(t) \in Starts
         /\ StepFrom(t) = Lo \/ StepFrom(t) >= t + SectorLen
         /\ \A s \in Starts : Behind(s) /\ t < s
              => StepFrom(t) <= s /\ StepFrom(t) >= t + SectorLen
<1> DEFINE r == IF Valid(t) THEN Span(t) ELSE SectorLen
<1>1. /\ t \in Nat /\ Lo <= t /\ t < Hi /\ Lo \in Starts
      /\ Size \in Nat /\ Lo \in Nat /\ Hi \in Nat /\ SectorLen \in Nat /\ SectorLen <= Size
  BY Sectors, Bounds, Consts DEF Lo, Starts
<1>2. r \in Nat /\ Whole(r) /\ r <= Size /\ r >= SectorLen /\ (Valid(t) => r = SpanOf(t))
  <2>1. CASE Valid(t)
    <3>1. t \in Headers
      BY <2>1 DEF Headers
    <3>2. /\ flash[t].at \in Nat /\ flash[t].at >= HeadLen /\ flash[t].at <= SpanOf(t)
          /\ SpanOf(t) \in Nat /\ SpanOf(t) <= Size
      BY <3>1, HeaderFacts DEF Disjoint
    <3>3. Whole(SpanOf(t)) /\ SpanOf(t) > 0
      BY <3>2, Rounding, Consts DEF SpanOf
    <3>4. SpanOf(t) >= SectorLen
      <4>1. PICK k \in Nat : SpanOf(t) = k * SectorLen
        BY <3>3 DEF Whole
      <4>2. k # 0
        BY <3>3, <4>1, Consts
      <4> QED BY <4>1, <4>2, TimesLe, Consts, 1 <= k
    <3>5. Span(t) = SpanOf(t)
      BY <3>2, Consts DEF Span, SpanOf, Atleast
    <3> QED BY <2>1, <3>2, <3>3, <3>4, <3>5
  <2>2. CASE ~Valid(t)
    <3>1. Whole(SectorLen)
      BY Consts, 1 \in Nat, SectorLen = 1 * SectorLen DEF Whole
    <3> QED BY <1>1, <2>2, <3>1
  <2> QED BY <2>1, <2>2
<1>3. StepFrom(t) = IF t + r >= Hi THEN Lo ELSE t + r
  BY DEF StepFrom
<1> HIDE DEF r
<1>4. StepFrom(t) \in Starts
  <2>1. CASE t + r >= Hi
    BY <1>1, <1>3, <2>1
  <2>2. CASE ~(t + r >= Hi)
    <3>1. Wrap(t + r) \in Starts
      BY <1>2, RoundTheRing
    <3> QED BY <1>3, <2>2, <3>1 DEF Wrap
  <2> QED BY <2>1, <2>2
<1>5. StepFrom(t) = Lo \/ StepFrom(t) >= t + SectorLen
  BY <1>1, <1>2, <1>3
<1>6. ASSUME NEW s \in Starts, Behind(s), t < s
      PROVE  StepFrom(t) <= s /\ StepFrom(t) >= t + SectorLen
  <2>1. s \in Nat /\ s < Hi /\ t + SectorLen <= s
    BY <1>1, <1>6, Sectors, Bounds, Consts
  <2>2. t + r <= s
    <3>1. CASE Valid(t)
      <4>1. t \in Headers /\ t # s
        BY <1>1, <1>6, <2>1, <3>1 DEF Headers
      <4>2. Offset(t, s) >= SpanOf(t)
        BY <1>6, <4>1 DEF Behind
      <4>3. Offset(t, s) = s - t
        BY <1>1, <1>6, <2>1 DEF Offset
      <4> QED BY <1>1, <1>2, <2>1, <3>1, <4>2, <4>3
    <3>2. CASE ~Valid(t)
      BY <2>1, <3>2 DEF r
    <3> QED BY <3>1, <3>2
  <2> QED BY <1>1, <1>2, <1>3, <2>1, <2>2
<1> QED BY <1>4, <1>5, <1>6

\* The walk stays on sectors.
LEMMA WalkOnSectors ==
  ASSUME IInv, Disjoint, pfs.sector \in Starts
  PROVE  \A k \in 0 .. WalkLen : Walk[k] \in Starts
<1> DEFINE Bad == {k \in 0 .. WalkLen : Walk[k] \notin Starts}
<1> SUFFICES ASSUME Bad # {} PROVE FALSE
  OBVIOUS
<1>1. WalkLen \in Nat
  BY Consts DEF WalkLen
<1>2. PICK n \in Bad : \A k \in Bad : n <= k
  <2>1. Bad \in SUBSET Nat
    BY <1>1
  <2> HIDE DEF Bad
  <2> QED BY <2>1, LeastNatural
<1>3. n \in 0 .. WalkLen /\ Walk[n] \notin Starts
  OBVIOUS
<1>4. n # 0
  BY <1>3, WalkIs
<1>5. n \in 1 .. WalkLen /\ n - 1 \in 0 .. WalkLen /\ ~(n <= n - 1)
  BY <1>1, <1>3, <1>4
<1>6. Walk[n - 1] \in Starts
  BY <1>2, <1>5
<1> QED BY <1>3, <1>5, <1>6, WalkIs, StepGoesOn

\* The first part of the walk ends at the first sector.
LEMMA WalkComesRound ==
  ASSUME IInv, Disjoint, pfs.sector \in Starts
  PROVE  \E k \in 1 .. Last + 1 : Walk[k] = Lo
<1> SUFFICES ASSUME \A k \in 1 .. Last + 1 : Walk[k] # Lo PROVE FALSE
  OBVIOUS
<1> DEFINE Bad == {k \in 0 .. Last + 1 : ~(Walk[k] >= k * SectorLen)}
<1>1. /\ Last + 1 \in Nat /\ Last + 1 \in 0 .. Last + 1 /\ Last + 1 <= WalkLen
      /\ WalkLen \in Nat /\ SectorLen \in Nat
  BY Consts DEF WalkLen
<1>2. Walk[Last + 1] < Hi
  BY <1>1, WalkOnSectors, Sectors, Bounds, Consts
<1>3. Bad # {}
  <2>1. Walk[Last + 1] \in Nat
    BY <1>1, WalkOnSectors, Sectors
  <2>2. ~(Walk[Last + 1] >= (Last + 1) * SectorLen)
    BY <1>2, <2>1, Bounds DEF Hi
  <2> QED BY <1>1, <2>2
<1>4. PICK n \in Bad : \A k \in Bad : n <= k
  <2>1. Bad \in SUBSET Nat
    BY <1>1
  <2> HIDE DEF Bad
  <2> QED BY <1>3, <2>1, LeastNatural
<1>5. n \in 0 .. Last + 1 /\ ~(Walk[n] >= n * SectorLen)
  OBVIOUS
<1>6. n # 0
  BY <1>1, <1>5, WalkIs, Sectors
<1>7. /\ n \in 1 .. Last + 1 /\ n - 1 \in 0 .. Last + 1 /\ ~(n <= n - 1)
      /\ n \in 1 .. WalkLen /\ n - 1 \in 0 .. WalkLen
  BY <1>1, <1>5, <1>6
<1>8. Walk[n - 1] >= (n - 1) * SectorLen
  BY <1>4, <1>7
<1>9. Walk[n] = StepFrom(Walk[n - 1]) /\ Walk[n - 1] \in Starts /\ Walk[n - 1] \in Nat
  BY <1>7, WalkIs, WalkOnSectors, Sectors
<1>10. Walk[n] \in Nat /\ Walk[n] >= Walk[n - 1] + SectorLen
  BY <1>7, <1>9, StepGoesOn, Sectors
<1>11. (n - 1) * SectorLen + SectorLen = n * SectorLen /\ (n - 1) * SectorLen \in Nat
  BY <1>1, <1>7
<1> QED BY <1>1, <1>5, <1>8, <1>9, <1>10, <1>11

\* From the first sector on it meets the sector it started from.
LEMMA WalkMeets ==
  ASSUME IInv, Disjoint, pfs.sector \in Starts, Behind(pfs.sector)
  PROVE  WalkEnds
<1> SUFFICES ASSUME \A k \in 1 .. WalkLen : Walk[k] # pfs.sector PROVE FALSE
  BY DEF WalkEnds, WalkLen
<1> DEFINE s == pfs.sector
<1>1. PICK first \in 1 .. Last + 1 : Walk[first] = Lo
  BY WalkComesRound
<1>2. /\ Last + 1 \in Nat /\ SectorLen \in Nat /\ first \in Nat /\ first >= 1
      /\ WalkLen = (Last + 1) + (Last + 1) /\ first <= Last + 1
  BY Consts DEF WalkLen
<1>3. s \in Nat /\ Lo <= s /\ s < Hi /\ Lo \in Nat /\ s \in Starts
  BY Sectors, Bounds, Consts
<1> HIDE DEF s
<1> DEFINE Met(j) == Walk[first + j] < s /\ Walk[first + j] >= j * SectorLen
           Bad == {j \in 0 .. Last + 1 : ~Met(j)}
<1>4. \A j \in 0 .. Last + 1 : first + j \in 1 .. WalkLen
  BY <1>2
<1>5. Bad # {}
  <2>1. Last + 1 \in 0 .. Last + 1
    BY <1>2
  <2>2. ~Met(Last + 1)
    <3>1. Walk[first + (Last + 1)] \in Nat
      BY <1>2, <1>4, <2>1, WalkOnSectors, Sectors
    <3>2. Hi = (Last + 1) * SectorLen /\ Hi \in Nat
      BY Bounds DEF Hi
    <3> QED BY <1>3, <3>1, <3>2
  <2> QED BY <2>1, <2>2
<1>6. PICK n \in Bad : \A k \in Bad : n <= k
  <2>1. Bad \in SUBSET Nat
    BY <1>2
  <2> HIDE DEF Bad
  <2> QED BY <1>5, <2>1, LeastNatural
<1>7. n \in 0 .. Last + 1 /\ ~Met(n)
  OBVIOUS
<1>8. n # 0
  <2> SUFFICES ASSUME n = 0 PROVE FALSE
    OBVIOUS
  <2>1. Walk[first + 0] = Lo
    BY <1>1, <1>2
  <2>2. Lo # s
    BY <1>1, <1>2 DEF s
  <2>3. 0 * SectorLen = 0
    BY <1>2
  <2>4. Met(0)
    BY <1>3, <2>1, <2>2, <2>3
  <2> QED BY <1>7, <2>4
<1>9. n - 1 \in 0 .. Last + 1 /\ ~(n <= n - 1) /\ n \in Nat
  BY <1>2, <1>7, <1>8
<1>10. Met(n - 1)
  BY <1>6, <1>9
<1> PICK t : t = Walk[first + (n - 1)]
  OBVIOUS
<1>11. /\ t < s /\ t >= (n - 1) * SectorLen
       /\ first + (n - 1) \in 1 .. WalkLen /\ first + n \in 1 .. WalkLen
       /\ (first + n) - 1 = first + (n - 1)
  BY <1>2, <1>4, <1>7, <1>9, <1>10
<1>12. Walk[first + n] = StepFrom(t)
  BY <1>11, WalkIs
<1>13. t \in Starts /\ t \in Nat
  BY <1>2, <1>11, WalkOnSectors, Sectors
<1>14. /\ StepFrom(t) \in Nat /\ StepFrom(t) <= s /\ StepFrom(t) >= t + SectorLen
  BY <1>3, <1>11, <1>13, StepGoesOn, Sectors DEF s
<1>15. StepFrom(t) # s
  BY <1>11, <1>12 DEF s
<1>16. (n - 1) * SectorLen + SectorLen = n * SectorLen /\ (n - 1) * SectorLen \in Nat
  BY <1>2, <1>8, <1>9
<1>17. StepFrom(t) < s /\ StepFrom(t) >= n * SectorLen
  <2>1. PICK x \in Nat : x = (n - 1) * SectorLen
    BY <1>16
  <2>2. t >= x /\ n * SectorLen = x + SectorLen
    BY <1>11, <1>16, <2>1
  <2> QED BY <1>2, <1>3, <1>13, <1>14, <1>15, <2>1, <2>2
<1> QED BY <1>7, <1>12, <1>17

\* From the front of the partition it never comes back to there.
LEMMA WalkFromFront ==
  ASSUME TypeOK, pfs.sector = 0
  PROVE  ~WalkEnds
<1> DEFINE On(k) == Walk[k] \in Nat /\ (k > 0 => Walk[k] > 0)
           Bad == {k \in 0 .. WalkLen : ~On(k)}
<1>1. WalkLen \in Nat
  BY Consts DEF WalkLen
<1>2. Bad = {}
  <2> SUFFICES ASSUME Bad # {} PROVE FALSE
    OBVIOUS
  <2>1. PICK n \in Bad : \A k \in Bad : n <= k
    <3>1. Bad \in SUBSET Nat
      BY <1>1
    <3> HIDE DEF Bad
    <3> QED BY <3>1, LeastNatural
  <2>2. n \in 0 .. WalkLen /\ ~On(n)
    OBVIOUS
  <2>3. n # 0
    BY <2>2, WalkIs
  <2>4. n \in 1 .. WalkLen /\ n - 1 \in 0 .. WalkLen /\ ~(n <= n - 1)
    BY <1>1, <2>2, <2>3
  <2>5. Walk[n - 1] \in Nat
    BY <2>1, <2>4
  <2>6. ASSUME NEW x \in Nat PROVE StepFrom(x) \in Nat /\ StepFrom(x) > 0
    <3>1. Lo \in Nat /\ Lo > 0 /\ Hi \in Nat /\ SectorLen \in Nat /\ SectorLen > 0
      BY Bounds, Consts
    <3>2. CASE Valid(x)
      <4>1. flash[x].at \in Nat /\ x > 0
        BY <3>2, HeaderTypes, Sectors, Bounds
      <4>2. Span(x) \in Nat
        BY <3>1, <4>1, Rounding DEF Span, Atleast
      <4> QED BY <3>1, <3>2, <4>1, <4>2 DEF StepFrom
    <3>3. CASE ~Valid(x)
      BY <3>1, <3>3 DEF StepFrom
    <3> QED BY <3>2, <3>3
  <2> QED BY <2>2, <2>4, <2>5, <2>6, WalkIs
<1>3. ASSUME NEW k \in 1 .. 2 * (Last + 1) PROVE Walk[k] # pfs.sector
  <2>1. k \in 0 .. WalkLen /\ k > 0
    BY <1>1 DEF WalkLen
  <2>2. On(k)
    BY <1>2, <2>1
  <2> QED BY <2>1, <2>2
<1> QED BY <1>3 DEF WalkEnds

\* The search for a recording ends, also for one that is not there, in every
\* partition and however it is filled, exactly when it starts on a sector: after
\* a recording that was not found it starts in front of the partition
\* (recfile_index_scan stops only where it began).
THEOREM SearchComesToEnd == Spec => []SearchEnds
<1>1. TypeOK /\ Ring => SearchEnds
  <2> SUFFICES ASSUME TypeOK, Ring, mounted, ~astray PROVE WalkEnds <=> pfs.sector # 0
    BY DEF SearchEnds
  <2>1. IInv /\ RInv /\ NewestInRam
    BY DEF Ring, RInv
  <2>2. pfs.sector # 0 => WalkEnds
    BY <2>1, WalkMeets DEF RInv, NewestInRam, NewestAt
  <2> QED BY <2>2, WalkFromFront
<1> QED BY <1>1, RingTheorem, PTL
=============================================================================
