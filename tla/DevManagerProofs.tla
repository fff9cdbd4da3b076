------------------------- MODULE DevManagerProofs -------------------------
(***************************************************************************)
(* The list of devices is sound for every set of logos, every heap and     *)
(* every order in which the tasks call the manager.  The inductive         *)
(* invariant is that the list is Good (DevListProofs) together with what   *)
(* app_core found out in the hold before the one that inserts (Looked):    *)
(* between the two holds other tasks run, but none of them adds an entry.  *)
(*                                                                         *)
(* For what the callers are told (AnswersAgree) two parts more: no stamp   *)
(* is given twice and all are below the counter (Stamps), and what the     *)
(* call in progress has made of its own pair of a device and a recording   *)
(* folder so far (PairsOK).                                                *)
(***************************************************************************)
EXTENDS DevManager, DevListProofs

-----------------------------------------------------------------------------
(***************************************************************************)
(* The invariant of the tasks.                                             *)
(***************************************************************************)
OpType == op \in [at: Steps, logo: Logo, mount: BOOLEAN, pair: BOOLEAN, paired: BOOLEAN]

\* The hold before the insertion saw the logo absent; the folder steps are
\* taken for a device that has a folder.
Looked == /\ op.at = "insertRec" => HasRec(op.logo) /\ ~InList(mgr, Rec[op.logo])
          /\ op.at = "checkRec" => HasRec(op.logo)
          /\ op.at = "insert" => ~InList(mgr, op.logo)

Sound == Good(mgr) /\ OpType /\ Looked

\* A step of another task, or one that adds nothing, keeps what was seen.
LEMMA LookedStays ==
  ASSUME Looked, UNCHANGED op, \A k : ~InList(mgr, k) => ~InList(mgr', k)
  PROVE  Looked'
  BY DEF Looked

LEMMA InitSound == Init => Sound
<1> SUFFICES ASSUME Init PROVE Sound
  OBVIOUS
<1>1. Typed(mgr) /\ Places(mgr) = {}
  BY DEF Init, Empty, Typed, Places
<1>2. OpType /\ op.at = "idle"
  BY DEF Init, OpType, Steps, Device
<1> QED BY <1>1, <1>2 DEF Sound, Good, Distinct, ValidIsUp, Looked

LEMMA RecIsLogo == \A l \in Logo : HasRec(l) => Rec[l] \in Logo
  BY RecAssumption DEF HasRec, Folders

\* The steps of a call that only look.
LEMMA LookingSound ==
  ASSUME Sound, (\E l \in Device : AddStart(l) \/ DelStart(l)) \/ CheckRec \/ Check \/ InsertRecFails \/ InsertDevFails
  PROVE  Sound'
<1> USE DEF Sound
<1>0. mgr' = mgr
  BY DEF AddStart, DelStart, CheckRec, Check, InsertRecFails, InsertDevFails
<1>1. Good(mgr')
  BY <1>0
<1>2. ASSUME NEW l \in Device, AddStart(l) PROVE OpType' /\ Looked'
  <2>1. Paired(mgr) \in BOOLEAN /\ l \in Logo
    BY DEF Paired, Device
  <2>2. CASE HasRec(l)
    <3>1. op' = [at |-> "checkRec", logo |-> l, mount |-> TRUE, pair |-> FALSE, paired |-> Paired(mgr)]
      BY <1>2, <2>2 DEF AddStart, Begin
    <3> QED BY <2>1, <2>2, <3>1 DEF OpType, Looked, Steps, HasRec
  <2>3. CASE ~HasRec(l)
    <3>1. op' = [at |-> "check", logo |-> l, mount |-> TRUE, pair |-> FALSE, paired |-> Paired(mgr)]
      BY <1>2, <2>3 DEF AddStart, Begin
    <3> QED BY <2>1, <3>1 DEF OpType, Looked, Steps
  <2> QED BY <2>2, <2>3
<1>3. ASSUME NEW l \in Device, DelStart(l) PROVE OpType' /\ Looked'
  <2>1. Paired(mgr) \in BOOLEAN /\ l \in Logo
    BY DEF Paired, Device
  <2>2. op' = [at |-> "del", logo |-> l, mount |-> TRUE, pair |-> FALSE, paired |-> Paired(mgr)]
    BY <1>3 DEF DelStart, Begin
  <2> QED BY <2>1, <2>2 DEF OpType, Looked, Steps
<1>4. CASE CheckRec
  <2>1. HasRec(op.logo)
    BY <1>4 DEF CheckRec, Looked
  <2>2. CASE InList(mgr, Rec[op.logo])
    BY <1>4, <2>2 DEF CheckRec, OpType, Looked, Steps
  <2>3. CASE ~InList(mgr, Rec[op.logo])
    BY <1>0, <1>4, <2>1, <2>3 DEF CheckRec, Goto, OpType, Looked, Steps, HasRec
  <2> QED BY <2>2, <2>3
<1>5. CASE Check
  <2>1. CASE InList(mgr, op.logo)
    BY <1>5, <2>1 DEF Check, Goto, Failed, OpType, Looked, Steps
  <2>2. CASE ~InList(mgr, op.logo)
    BY <1>0, <1>5, <2>2 DEF Check, Goto, OpType, Looked, Steps
  <2> QED BY <2>1, <2>2
<1>6. CASE InsertRecFails
  BY <1>6 DEF InsertRecFails, OpType, Looked, Steps
<1>7. CASE InsertDevFails
  BY <1>7 DEF InsertDevFails, Goto, Failed, OpType, Looked, Steps
<1> QED BY <1>1, <1>2, <1>3, <1>4, <1>5, <1>6, <1>7

\* The two insertions: the logo is still absent.
LEMMA InsertingSound ==
  ASSUME Sound, NEW a \in Addr, NEW up \in BOOLEAN, InsertRec(a, up) \/ InsertDev(a, up)
  PROVE  Sound'
<1> USE DEF Sound
<1>1. CASE InsertRec(a, up)
  <2>1. HasRec(op.logo) /\ ~InList(mgr, Rec[op.logo]) /\ op.logo \in Logo
    BY <1>1 DEF InsertRec, Looked, OpType
  <2>2. Good(mgr')
    BY <1>1, <2>1, RecIsLogo, InsertGood DEF InsertRec, Place
  <2>3. OpType' /\ Looked'
    BY <1>1 DEF InsertRec, OpType, Looked, Steps
  <2> QED BY <2>2, <2>3
<1>2. CASE InsertDev(a, up)
  <2>1. ~InList(mgr, op.logo) /\ op.logo \in Logo
    BY <1>2 DEF InsertDev, Looked, OpType
  <2>2. Good(mgr')
    BY <1>2, <2>1, InsertGood DEF InsertDev, Place
  <2>3. OpType' /\ Looked'
    BY <1>2 DEF InsertDev, Goto, Failed, OpType, Looked, Steps
  <2> QED BY <2>2, <2>3
<1> QED BY <1>1, <1>2

LEMMA RemovingSound ==
  ASSUME Sound, Undo \/ UndoRec \/ Del \/ DelRec
  PROVE  Sound'
<1> USE DEF Sound
<1>1. PICK l : mgr' = Remove(mgr, l)
  BY DEF Undo, UndoRec, Del, DelRec, Delete
<1>2. Good(mgr')
  BY <1>1, RemoveGood
<1>3. OpType' /\ Looked'
  BY DEF Undo, UndoRec, Del, DelRec, Delete, Goto, OpType, Looked, Steps
<1> QED BY <1>2, <1>3

LEMMA MountingSound ==
  ASSUME Sound, Mounting
  PROVE  Sound'
<1> USE DEF Sound
<1>1. ASSUME NEW l \in Device, NEW up \in BOOLEAN, MountDev(l, up) PROVE Sound'
  <2>1. Good(mgr')
    BY <1>1, MountGood DEF MountDev
  <2>2. Paired(mgr) \in BOOLEAN /\ l \in Logo
    BY DEF Paired, Device
  <2>3. PICK st \in {"mountRec", "idle"} :
          op' = [at |-> st, logo |-> l, mount |-> TRUE, pair |-> FALSE, paired |-> Paired(mgr)]
    BY <1>1 DEF MountDev, Begin
  <2> QED BY <2>1, <2>2, <2>3 DEF OpType, Looked, Steps
<1>2. ASSUME NEW up \in BOOLEAN, MountRec(up) PROVE Sound'
  <2>1. Good(mgr')
    BY <1>2, MountGood DEF MountRec
  <2>2. PICK st \in {"unmountBack", "idle"} : op' = [op EXCEPT !.at = st]
    BY <1>2 DEF MountRec, Goto
  <2> QED BY <2>1, <2>2 DEF OpType, Looked, Steps
<1>3. CASE UnmountBack \/ UnmountDev
  <2>1. Good(mgr')
    BY <1>3, UnmountGood DEF UnmountBack, UnmountDev
  <2> QED BY <1>3, <2>1 DEF UnmountBack, UnmountDev, Goto, OpType, Looked, Steps
<1>4. ASSUME NEW l \in Logo, UnmountStart(l) PROVE Sound'
  <2>1. Good(mgr')
    BY <1>4, UnmountGood DEF UnmountStart
  <2>2. Paired(mgr) \in BOOLEAN
    BY DEF Paired
  <2>3. op' = [at |-> "unmountDev", logo |-> l, mount |-> TRUE, pair |-> FALSE, paired |-> Paired(mgr)]
    BY <1>4 DEF UnmountStart, Begin
  <2> QED BY <2>1, <2>2, <2>3 DEF OpType, Looked, Steps
<1>5. ASSUME NEW ups \in SUBSET Places(mgr), MountAll(ups) PROVE Sound'
  <2>1. Good(mgr')
    BY <1>5, CheckMountGood DEF MountAll
  <2> QED BY <1>5, <2>1 DEF MountAll, Idle, OpType, Looked
<1> QED BY <1>1, <1>2, <1>3, <1>4, <1>5 DEF Mounting

LEMMA UsingSound ==
  ASSUME Sound, Using
  PROVE  Sound'
<1> USE DEF Sound
<1>1. UNCHANGED op
  BY DEF Using, Find, MarkHeld, MarkLogo, Activate
<1>2. Good(mgr') /\ \A k : ~InList(mgr, k) => ~InList(mgr', k)
  <2>1. ASSUME NEW valid \in BOOLEAN, NEW a, Find(valid, a)
        PROVE  Good(mgr') /\ \A k : ~InList(mgr, k) => ~InList(mgr', k)
    BY <2>1 DEF Find
  <2>2. ASSUME NEW flag \in BOOLEAN, MarkHeld(flag)
        PROVE  Good(mgr') /\ \A k : ~InList(mgr, k) => ~InList(mgr', k)
    BY <2>2, SetValidGood DEF MarkHeld
  <2>3. ASSUME NEW flag \in BOOLEAN, NEW l, MarkLogo(l, flag)
        PROVE  Good(mgr') /\ \A k : ~InList(mgr, k) => ~InList(mgr', k)
    BY <2>3, SetValidGood DEF MarkLogo, SetValidByLogo
  <2>4. CASE Activate
    BY <2>4, SetActiveGood DEF Activate
  <2> QED BY <2>1, <2>2, <2>3, <2>4 DEF Using
<1> QED BY <1>1, <1>2, LookedStays DEF OpType

LEMMA NextSound == Sound /\ [Next]_vars => Sound'
<1> SUFFICES ASSUME Sound, [Next]_vars PROVE Sound'
  OBVIOUS
<1>1. CASE Adding
  BY <1>1, LookingSound, InsertingSound, RemovingSound DEF Adding
<1>2. CASE Deleting
  BY <1>2, LookingSound, RemovingSound DEF Deleting
<1>3. CASE Mounting
  BY <1>3, MountingSound
<1>4. CASE Using
  BY <1>4, UsingSound
<1>5. CASE UNCHANGED vars
  BY <1>5 DEF vars, Sound, OpType, Looked
<1> QED BY <1>1, <1>2, <1>3, <1>4, <1>5 DEF Next

\* The list, the call in progress and what it has looked up agree always.
THEOREM SoundAlways == Spec => []Sound
<1>1. Init => Sound
  BY InitSound
<1>2. Sound /\ [Next]_vars => Sound'
  BY NextSound
<1> QED BY <1>1, <1>2, PTL DEF Spec

\* No logo and no address is in the list twice (dev_manager_add tests and
\* inserts in two holds of the mutex).
THEOREM OneEntryAlways == Spec => []OneEntry
<1>1. Sound => OneEntry
  BY DEF Sound, Good, Distinct, OneEntry
<1> QED BY <1>1, SoundAlways, PTL

\* Only a mounted device is offered as one with files to play.
THEOREM ValidIsMountedAlways == Spec => []ValidIsMounted
<1>1. Sound => ValidIsMounted
  BY DEF Sound, Good, ValidIsUp, ValidIsMounted
<1> QED BY <1>1, SoundAlways, PTL

\* Both, between any two holds of the mutex.
THEOREM ListIsSoundAlways == Spec => []ListIsSound
<1>1. OneEntry /\ ValidIsMounted => ListIsSound
  BY DEF ListIsSound
<1> QED BY <1>1, OneEntryAlways, ValidIsMountedAlways, PTL

\* Types; what a task keeps is NULL or an address of the heap.
THEOREM TypeCorrect == Spec => []TypeOK
<1> DEFINE HeldOK == held \in Addr \cup {NoAddr}
<1>1. Init => HeldOK
  BY DEF Init
<1>2. Sound /\ HeldOK /\ [Next]_vars => HeldOK'
  <2> SUFFICES ASSUME Sound, HeldOK, [Next]_vars PROVE HeldOK'
    OBVIOUS
  <2>1. CASE UNCHANGED held
    BY <2>1
  <2>2. ASSUME NEW valid \in BOOLEAN, NEW a \in Answers(mgr, valid), Find(valid, a)
        PROVE  HeldOK'
    <3>1. Typed(mgr)
      BY DEF Sound, Good
    <3>2. Known(mgr, a)
      BY <2>2, <3>1, LookupsKnown DEF Answers
    <3> QED BY <2>2, <3>2 DEF Find, Known
  <2>3. CASE Adding \/ Deleting \/ Mounting
    <3>1. UNCHANGED held
      BY <2>3 DEF Adding, AddStart, CheckRec, Check, InsertRec, InsertRecFails, InsertDev, InsertDevFails,
         Undo, UndoRec, Deleting, DelStart, Del, DelRec, Delete, Mounting, MountDev, MountRec, UnmountBack,
         UnmountDev, UnmountStart, MountAll
    <3> QED BY <2>1, <3>1
  <2>4. CASE Using
    BY <2>1, <2>2, <2>4 DEF Using, MarkHeld, MarkLogo, Activate
  <2>5. CASE UNCHANGED vars
    BY <2>1, <2>5 DEF vars
  <2> QED BY <2>3, <2>4, <2>5 DEF Next
<1>3. Sound /\ HeldOK => TypeOK
  BY DEF Sound, OpType, Good, Typed, TypeOK
<1> QED BY <1>1, <1>2, <1>3, SoundAlways, PTL DEF Spec

-----------------------------------------------------------------------------
(***************************************************************************)
(* Which device is active.  Stamps are the values of a counter that only   *)
(* goes up: each is given once, and every one that was given is below it.  *)
(***************************************************************************)
Stamps(m) ==
  /\ \A i \in Places(m) : m.list[i].stamp < m.counter /\ m.list[i].life < m.counter
  /\ \A i, j \in Places(m) :
       i # j => m.list[i].stamp # m.list[j].stamp /\ m.list[i].life # m.list[j].life

\* The entries of r are entries of m, at other places, mounted or not.
SameEntry(e, f) == e.addr = f.addr /\ e.stamp = f.stamp /\ e.life = f.life /\ e.logo = f.logo
From(m, r) == /\ r.counter = m.counter
              /\ \A i \in Places(r) : \E j \in Places(m) : SameEntry(r.list[i], m.list[j])

-----------------------------------------------------------------------------
(***************************************************************************)
(* Which logos are mounted, and the folders among them.                    *)
(***************************************************************************)
Up(m, l) == SeenOfLogo(m, l, FALSE) # {}
PairUp(m, l) == Up(m, Rec[l]) => Up(m, l)

\* Only unmount is ever called with a recording folder, and without
\* TCFG_RECORD_FOLDER_DEV_ENABLE there are none.
Called == /\ op.at \notin {"idle", "unmountDev"} => op.logo \in Device
          /\ ~RecFolder => \A f \in Folders : ~InList(mgr, f)

\* What a call that found every pair in order has made of its own pair so
\* far; it leaves the others alone.
OthersPaired == \A l \in DOMAIN Rec \ {op.logo} : PairUp(mgr, l)
OwnPair ==
  op.logo \in DOMAIN Rec =>
    /\ op.at \in {"checkRec", "insertRec"} => PairUp(mgr, op.logo)
    /\ op.at \in {"check", "insert"} => PairUp(mgr, op.logo) \/ op.pair
    /\ op.at = "mountRec" => Up(mgr, op.logo) /\ ~Up(mgr, Rec[op.logo])
    /\ op.at \in {"unmountBack", "unmountDev"} => ~Up(mgr, Rec[op.logo])
PairsOK == ~Idle /\ op.paired => OthersPaired /\ OwnPair

Agreed == Sound /\ Stamps(mgr) /\ Called /\ PairsOK

-----------------------------------------------------------------------------
(***************************************************************************)
(* The list after each hold, entry by entry.                               *)
(***************************************************************************)
LEMMA PlacesAre ==
  ASSUME NEW m, Typed(m)
  PROVE  /\ m.list \in Seq(Entry) /\ Len(m.list) \in Nat /\ Places(m) = 1..Len(m.list)
         /\ m.counter \in Nat /\ \A i \in Places(m) : m.list[i] \in Entry
<1>1. m.list \in Seq(Entry) /\ m.counter \in Nat
  BY DEF Typed
<1> QED BY <1>1 DEF Places

LEMMA InsertedList ==
  ASSUME NEW m, Typed(m), NEW l \in Logo, NEW a \in Addr, NEW up \in BOOLEAN
  PROVE  LET r == Insert(m, l, a, up)
             n == Len(m.list) + 1
         IN /\ Places(r) = 1..n /\ r.counter = m.counter + 1
            /\ \A i \in Places(m) : i \in Places(r) /\ i # n /\ r.list[i] = m.list[i]
            /\ \A i \in Places(r) : i = n \/ i \in Places(m)
            /\ n \in Places(r)
            /\ r.list[n].addr = a /\ r.list[n].logo = l /\ r.list[n].mounted = up
            /\ r.list[n].stamp = m.counter /\ r.list[n].life = m.counter
<1> DEFINE s == m.list
           e == [addr |-> a, logo |-> l, mounted |-> up, valid |-> up,
                 stamp |-> m.counter, life |-> m.counter]
           t == Append(s, e)
           r == Insert(m, l, a, up)
<1>1. s \in Seq(Entry) /\ m.counter \in Nat /\ Len(s) \in Nat /\ Places(m) = 1..Len(s)
  BY PlacesAre
<1>2. e \in Entry
  BY <1>1 DEF Entry
<1>3. DOMAIN t = 1..(Len(s) + 1) /\ t[Len(s) + 1] = e
  BY <1>1, <1>2
<1>4. \A i \in 1..Len(s) : t[i] = s[i]
  BY <1>1, <1>2
<1>5. r.list = t /\ r.counter = m.counter + 1
  BY DEF Insert
<1>6. /\ e.addr = a /\ e.logo = l /\ e.mounted = up
      /\ e.stamp = m.counter /\ e.life = m.counter
  OBVIOUS
<1> HIDE DEF e, t, r
<1>7. Places(r) = 1..(Len(s) + 1)
  BY <1>3, <1>5 DEF Places
<1>8. \A i \in 1..Len(s) : i \in 1..(Len(s) + 1) /\ i # Len(s) + 1
  BY <1>1
<1>9. \A i \in 1..(Len(s) + 1) : i = Len(s) + 1 \/ i \in 1..Len(s)
  BY <1>1
<1>10. Len(s) + 1 \in 1..(Len(s) + 1)
  BY <1>1
<1> QED BY <1>1, <1>3, <1>4, <1>5, <1>6, <1>7, <1>8, <1>9, <1>10 DEF r

\* What an entry keeps when it is mounted, unmounted or marked.
LEMMA WithKeeps ==
  ASSUME NEW e \in Entry, NEW up \in BOOLEAN, NEW ok \in BOOLEAN
  PROVE  SameEntry(With(e, up, ok), e) /\ With(e, up, ok).mounted = up
  BY DEF With, Entry, SameEntry

LEMMA SetEntryList ==
  ASSUME NEW m, Typed(m), NEW i \in Places(m), NEW up \in BOOLEAN, NEW ok \in BOOLEAN
  PROVE  LET r == SetEntry(m, i, up, ok)
         IN /\ Places(r) = Places(m) /\ r.counter = m.counter
            /\ SameEntry(r.list[i], m.list[i]) /\ r.list[i].mounted = up
            /\ \A j \in Places(m) : j # i => r.list[j] = m.list[j]
<1> DEFINE s == m.list
           e == With(s[i], up, ok)
           r == SetEntry(m, i, up, ok)
<1>1. s[i] \in Entry
  BY PlacesAre
<1>2. SameEntry(e, s[i]) /\ e.mounted = up
  BY <1>1, WithKeeps
<1>3. r.list = [s EXCEPT ![i] = e] /\ r.counter = m.counter
  BY DEF SetEntry, Typed
<1> HIDE DEF e, r
<1>4. Places(r) = Places(m)
  BY <1>3 DEF Places
<1>5. r.list[i] = e /\ \A j \in Places(m) : j # i => r.list[j] = s[j]
  BY <1>3 DEF Places
<1> QED BY <1>2, <1>3, <1>4, <1>5 DEF r

LEMMA RemovedList ==
  ASSUME NEW m, Typed(m), NEW l, InList(m, l), NEW k \in Places(m), k = Lowest(OfLogo(m, l))
  PROVE  LET r == Remove(m, l)
         IN /\ r.counter = m.counter
            /\ \A i \in Places(r) : \E j \in Places(m) : j # k /\ r.list[i] = m.list[j]
            /\ \A j \in Places(m) : j # k => \E i \in Places(r) : r.list[i] = m.list[j]
<1> DEFINE s == m.list
           t == Without(s, k)
           r == Remove(m, l)
<1>1. Len(s) \in Nat /\ Places(m) = 1..Len(s) /\ k \in 1..Len(s)
  BY PlacesAre
<1>2. r.list = t /\ r.counter = m.counter
  BY DEF Remove, Typed
<1>3. t = [i \in 1..(Len(s) - 1) |-> IF i < k THEN s[i] ELSE s[i + 1]]
  BY DEF Without
<1> HIDE DEF t, r, s
<1>4. Places(r) = 1..(Len(s) - 1)
  BY <1>2, <1>3 DEF Places
<1>5. ASSUME NEW i \in 1..(Len(s) - 1) PROVE \E j \in 1..Len(s) : j # k /\ t[i] = s[j]
  <2>1. CASE i < k
    <3>1. i \in 1..Len(s) /\ i # k /\ t[i] = s[i]
      BY <1>1, <1>3, <2>1
    <3> QED BY <3>1
  <2>2. CASE ~(i < k)
    <3>1. i + 1 \in 1..Len(s) /\ i + 1 # k /\ t[i] = s[i + 1]
      BY <1>1, <1>3, <2>2
    <3> QED BY <3>1
  <2> QED BY <2>1, <2>2
<1>6. ASSUME NEW j \in 1..Len(s), j # k PROVE \E i \in 1..(Len(s) - 1) : t[i] = s[j]
  <2>1. CASE j < k
    <3>1. j \in 1..(Len(s) - 1) /\ t[j] = s[j]
      BY <1>1, <1>3, <2>1
    <3> QED BY <3>1
  <2>2. CASE ~(j < k)
    <3>1. j - 1 \in 1..(Len(s) - 1) /\ ~(j - 1 < k) /\ (j - 1) + 1 = j
      BY <1>1, <1>6, <2>2
    <3>2. t[j - 1] = s[j]
      BY <1>3, <3>1
    <3> QED BY <3>1, <3>2
  <2> QED BY <2>1, <2>2
<1> QED BY <1>1, <1>2, <1>4, <1>5, <1>6 DEF r, s

LEMMA StampedList ==
  ASSUME NEW m, Typed(m), NEW i \in Places(m)
  PROVE  LET r == Stamped(m, i)
         IN /\ Places(r) = Places(m) /\ r.counter = m.counter + 1
            /\ r.list[i].stamp = m.counter
            /\ \A j \in Places(m) : j # i => r.list[j].stamp = m.list[j].stamp
            /\ \A j \in Places(m) : /\ r.list[j].life = m.list[j].life
                                    /\ r.list[j].addr = m.list[j].addr
                                    /\ r.list[j].logo = m.list[j].logo
                                    /\ r.list[j].mounted = m.list[j].mounted
<1> DEFINE s == m.list
           c == m.counter
           q == s[i]
           e == [q EXCEPT !.stamp = c]
           r == Stamped(m, i)
<1>1. q \in Entry
  BY PlacesAre
<1>2. /\ e.stamp = c /\ e.life = q.life /\ e.addr = q.addr /\ e.logo = q.logo
      /\ e.mounted = q.mounted
  BY <1>1 DEF Entry
<1>3. r.list = [s EXCEPT ![i] = e] /\ r.counter = c + 1
  BY DEF Stamped
<1> HIDE DEF e, r, c
<1>4. Places(r) = Places(m)
  BY <1>3 DEF Places
<1>5. r.list[i] = e /\ \A j \in Places(m) : j # i => r.list[j] = s[j]
  BY <1>3 DEF Places
<1> QED BY <1>2, <1>3, <1>4, <1>5 DEF r, c

-----------------------------------------------------------------------------
(***************************************************************************)
(* The counter and its stamps.                                             *)
(***************************************************************************)
LEMMA FromIsSame ==
  ASSUME NEW m, NEW r, Places(r) = Places(m), r.counter = m.counter,
         \A i \in Places(m) : SameEntry(r.list[i], m.list[i])
  PROVE  From(m, r)
  BY DEF From

LEMMA StaysFrom ==
  ASSUME NEW m
  PROVE  From(m, m)
  BY DEF From, SameEntry

LEMMA SetEntryFrom ==
  ASSUME NEW m, Typed(m), NEW i \in Places(m), NEW up \in BOOLEAN, NEW ok \in BOOLEAN
  PROVE  From(m, SetEntry(m, i, up, ok))
<1> DEFINE r == SetEntry(m, i, up, ok)
<1>1. /\ Places(r) = Places(m) /\ r.counter = m.counter /\ SameEntry(r.list[i], m.list[i])
      /\ \A j \in Places(m) : j # i => r.list[j] = m.list[j]
  BY SetEntryList
<1> HIDE DEF r
<1>2. \A j \in Places(m) : SameEntry(r.list[j], m.list[j])
  BY <1>1 DEF SameEntry
<1> QED BY <1>1, <1>2, FromIsSame DEF r

LEMMA MountFrom ==
  ASSUME NEW m, Good(m), NEW l, NEW up \in BOOLEAN
  PROVE  From(m, Mount(m, l, up))
<1>1. CASE InList(m, l) /\ ~m.list[Lowest(OfLogo(m, l))].mounted
  <2>1. Lowest(OfLogo(m, l)) \in Places(m)
    BY <1>1, PlaceOfLogo DEF InList
  <2> QED BY <1>1, <2>1, SetEntryFrom DEF Mount, Good
<1>2. CASE ~(InList(m, l) /\ ~m.list[Lowest(OfLogo(m, l))].mounted)
  BY <1>2, StaysFrom DEF Mount
<1> QED BY <1>1, <1>2

LEMMA UnmountFrom ==
  ASSUME NEW m, Good(m), NEW l
  PROVE  From(m, Unmount(m, l))
<1> DEFINE S == SeenOfLogo(m, l, FALSE)
<1>1. CASE S # {}
  <2>1. S \in SUBSET OfLogo(m, l)
    BY DEF SeenOfLogo
  <2>2. Lowest(S) \in Places(m)
    BY <1>1, <2>1, PlaceOfLogo
  <2> QED BY <1>1, <2>2, SetEntryFrom DEF Unmount, Good
<1>2. CASE S = {}
  BY <1>2, StaysFrom DEF Unmount
<1> QED BY <1>1, <1>2

LEMMA SetValidFrom ==
  ASSUME NEW m, Good(m), NEW a, NEW flag \in BOOLEAN
  PROVE  From(m, SetValid(m, a, flag))
<1>1. CASE Online(m, a)
  BY <1>1, PlaceOfAddr, SetEntryFrom DEF SetValid, Good
<1>2. CASE ~Online(m, a)
  BY <1>2, StaysFrom DEF SetValid
<1> QED BY <1>1, <1>2

LEMMA CheckMountFrom ==
  ASSUME NEW m, Good(m), NEW ups
  PROVE  From(m, CheckMount(m, ups))
<1> DEFINE r == CheckMount(m, ups)
           up(i) == i \in ups
<1>1. /\ r.list = [i \in Places(m) |-> With(m.list[i], up(i), up(i))] /\ r.counter = m.counter
  BY DEF CheckMount, Good, Typed
<1>2. \A i \in Places(m) : up(i) \in BOOLEAN /\ m.list[i] \in Entry
  BY PlacesAre DEF Good
<1> HIDE DEF r, up
<1>3. Places(r) = Places(m)
  BY <1>1 DEF Places
<1>4. \A i \in Places(m) : SameEntry(r.list[i], m.list[i])
  BY <1>1, <1>2, WithKeeps
<1> QED BY <1>1, <1>3, <1>4, FromIsSame DEF r

LEMMA RemoveFrom ==
  ASSUME NEW m, Good(m), NEW l
  PROVE  From(m, Remove(m, l))
<1>1. CASE ~InList(m, l)
  BY <1>1, StaysFrom DEF Remove
<1>2. CASE InList(m, l)
  <2>1. Lowest(OfLogo(m, l)) \in Places(m) /\ Typed(m)
    BY <1>2, PlaceOfLogo DEF InList, Good
  <2>2. /\ Remove(m, l).counter = m.counter
        /\ \A i \in Places(Remove(m, l)) : \E j \in Places(m) : Remove(m, l).list[i] = m.list[j]
    BY <1>2, <2>1, RemovedList
  <2> QED BY <2>2 DEF From, SameEntry
<1> QED BY <1>1, <1>2

\* A list made of entries of m has stamps and lives as m has.
LEMMA FromStamps ==
  ASSUME NEW m, NEW r, Stamps(m), From(m, r), Distinct(r)
  PROVE  Stamps(r)
<1>1. ASSUME NEW i \in Places(r) PROVE r.list[i].stamp < r.counter /\ r.list[i].life < r.counter
  BY DEF From, Stamps, SameEntry
<1>2. ASSUME NEW i \in Places(r), NEW j \in Places(r), i # j
      PROVE  r.list[i].stamp # r.list[j].stamp /\ r.list[i].life # r.list[j].life
  <2>1. PICK p \in Places(m) : SameEntry(r.list[i], m.list[p])
    BY DEF From
  <2>2. PICK q \in Places(m) : SameEntry(r.list[j], m.list[q])
    BY DEF From
  <2>3. r.list[i].addr # r.list[j].addr
    BY <1>2 DEF Distinct
  <2>4. p # q
    BY <2>1, <2>2, <2>3 DEF SameEntry
  <2> QED BY <2>1, <2>2, <2>4 DEF Stamps, SameEntry
<1> QED BY <1>1, <1>2 DEF Stamps

LEMMA StampsAreNumbers ==
  ASSUME NEW m, Typed(m)
  PROVE  m.counter \in Nat /\ \A i \in Places(m) : m.list[i].stamp \in Nat /\ m.list[i].life \in Nat
  BY PlacesAre DEF Entry

LEMMA InsertStamps ==
  ASSUME NEW m, Typed(m), Stamps(m), NEW l \in Logo, NEW a \in Addr, NEW up \in BOOLEAN
  PROVE  Stamps(Insert(m, l, a, up))
<1> DEFINE r == Insert(m, l, a, up)
           n == Len(m.list) + 1
           c == m.counter
<1>1. /\ r.counter = c + 1
      /\ \A i \in Places(m) : i \in Places(r) /\ i # n /\ r.list[i] = m.list[i]
      /\ \A i \in Places(r) : i = n \/ i \in Places(m)
      /\ r.list[n].stamp = c /\ r.list[n].life = c
  BY InsertedList
<1>2. c \in Nat /\ \A i \in Places(m) : m.list[i].stamp \in Nat /\ m.list[i].life \in Nat
  BY StampsAreNumbers
<1>3. \A i \in Places(m) : m.list[i].stamp < c /\ m.list[i].life < c
  BY DEF Stamps
<1> HIDE DEF r, n, c
<1>4. \A i \in Places(m) : /\ m.list[i].stamp < c + 1 /\ m.list[i].life < c + 1
                           /\ m.list[i].stamp # c /\ m.list[i].life # c
  BY <1>2, <1>3
<1>5. c < c + 1
  BY <1>2
<1>6. \A i \in Places(r) : r.list[i].stamp < r.counter /\ r.list[i].life < r.counter
  BY <1>1, <1>4, <1>5
<1>7. ASSUME NEW i \in Places(r), NEW j \in Places(r), i # j
      PROVE  r.list[i].stamp # r.list[j].stamp /\ r.list[i].life # r.list[j].life
  <2>1. CASE i = n
    BY <1>1, <1>4, <1>7, <2>1
  <2>2. CASE j = n
    BY <1>1, <1>4, <1>7, <2>2
  <2>3. CASE i # n /\ j # n
    BY <1>1, <1>7, <2>3 DEF Stamps
  <2> QED BY <2>1, <2>2, <2>3
<1> QED BY <1>6, <1>7 DEF Stamps, r

LEMMA SetActiveStamps ==
  ASSUME NEW m, Good(m), Stamps(m), NEW a
  PROVE  Stamps(SetActive(m, a))
<1>1. CASE ~Online(m, a)
  BY <1>1 DEF SetActive
<1>2. CASE Online(m, a)
  <2> DEFINE k == Lowest(SeenAt(m, a))
             r == SetActive(m, a)
             c == m.counter
  <2>1. k \in Places(m) /\ Typed(m)
    BY <1>2, PlaceOfAddr DEF Good
  <2>2. /\ Places(r) = Places(m) /\ r.counter = c + 1 /\ r.list[k].stamp = c
        /\ \A j \in Places(m) : j # k => r.list[j].stamp = m.list[j].stamp
        /\ \A j \in Places(m) : r.list[j].life = m.list[j].life
    BY <1>2, <2>1, StampedList DEF SetActive
  <2>3. c \in Nat /\ \A i \in Places(m) : m.list[i].stamp \in Nat /\ m.list[i].life \in Nat
    BY <2>1, StampsAreNumbers
  <2>4. \A i \in Places(m) : m.list[i].stamp < c /\ m.list[i].life < c
    BY DEF Stamps
  <2> HIDE DEF r, k, c
  <2>5. \A i \in Places(m) : m.list[i].stamp < c + 1 /\ m.list[i].life < c + 1 /\ m.list[i].stamp # c
    BY <2>3, <2>4
  <2>6. c < c + 1
    BY <2>3
  <2>7. \A i \in Places(r) : r.list[i].stamp < r.counter /\ r.list[i].life < r.counter
    BY <2>2, <2>5, <2>6
  <2>8. ASSUME NEW i \in Places(r), NEW j \in Places(r), i # j
        PROVE  r.list[i].stamp # r.list[j].stamp /\ r.list[i].life # r.list[j].life
    <3>1. CASE i = k
      BY <2>2, <2>5, <2>8, <3>1 DEF Stamps
    <3>2. CASE j = k
      BY <2>2, <2>5, <2>8, <3>2 DEF Stamps
    <3>3. CASE i # k /\ j # k
      BY <2>2, <2>8, <3>3 DEF Stamps
    <3> QED BY <3>1, <3>2, <3>3
  <2> QED BY <2>7, <2>8 DEF Stamps, r
<1> QED BY <1>1, <1>2

-----------------------------------------------------------------------------
(***************************************************************************)
(* The active device: the mounted one with the highest stamp.              *)
(***************************************************************************)
Latest(m, i) == i \in Seen(m, FALSE) /\ \A j \in Seen(m, FALSE) : m.list[j].stamp <= m.list[i].stamp

LEMMA ActiveIs ==
  ASSUME NEW m, Typed(m), Stamps(m), NEW i, Latest(m, i)
  PROVE  FindActive(m, FALSE) = m.list[i].addr
<1> DEFINE S == {j \in Seen(m, FALSE) : \A k \in Seen(m, FALSE) : m.list[k].stamp <= m.list[j].stamp}
<1>1. i \in S /\ S \in SUBSET Places(m)
  BY DEF Latest, Seen
<1>2. ASSUME NEW j \in S PROVE j = i
  <2>1. m.list[i].stamp <= m.list[j].stamp /\ m.list[j].stamp <= m.list[i].stamp
    BY <1>1
  <2>2. m.list[i].stamp \in Nat /\ m.list[j].stamp \in Nat
    BY <1>1, StampsAreNumbers
  <2>3. m.list[i].stamp = m.list[j].stamp
    BY <2>1, <2>2
  <2> QED BY <1>1, <2>3 DEF Stamps
<1>3. FindActive(m, FALSE) = Answer(m, S, Lowest(S))
  BY DEF FindActive
<1> HIDE DEF S
<1>4. Lowest(S) = i
  BY <1>1, <1>2, LowestOfOne
<1> QED BY <1>1, <1>3, <1>4 DEF Answer

LEMMA ActiveIsLatest ==
  ASSUME NEW m, Typed(m), FindActive(m, FALSE) # NoAddr
  PROVE  \E i \in Seen(m, FALSE) : Latest(m, i) /\ m.list[i].addr = FindActive(m, FALSE)
<1> DEFINE S == {j \in Seen(m, FALSE) : \A k \in Seen(m, FALSE) : m.list[k].stamp <= m.list[j].stamp}
<1>1. FindActive(m, FALSE) = Answer(m, S, Lowest(S))
  BY DEF FindActive
<1>2. S \in SUBSET Places(m) /\ \A i \in S : i \in Seen(m, FALSE) /\ Latest(m, i)
  BY DEF Seen, Latest
<1> HIDE DEF S
<1>3. S # {}
  BY <1>1 DEF Answer
<1>4. Lowest(S) \in S
  BY <1>2, <1>3, LowestIsIn
<1> QED BY <1>1, <1>2, <1>3, <1>4 DEF Answer

\* Whatever leaves or is unmounted, the active device stays it while it is
\* there, unless one that was not mounted is.
LEMMA ActiveStays ==
  ASSUME NEW m, NEW r, Good(m), Good(r), Stamps(m), Stamps(r), From(m, r),
         MountedLives(r) \subseteq MountedLives(m),
         FindActive(m, FALSE) # NoAddr, Online(r, FindActive(m, FALSE))
  PROVE  FindActive(r, FALSE) = FindActive(m, FALSE)
<1> DEFINE a == FindActive(m, FALSE)
<1>0. Typed(m) /\ Typed(r)
  BY DEF Good
<1>1. PICK i \in Seen(m, FALSE) : Latest(m, i) /\ m.list[i].addr = a
  BY <1>0, ActiveIsLatest
<1> HIDE DEF a
<1>2. PICK p \in Places(r) : r.list[p].mounted /\ r.list[p].addr = a
  BY PlaceOnline DEF a
<1>3. i \in Places(m) /\ p \in Seen(r, FALSE)
  BY <1>2 DEF Seen
<1>4. SameEntry(r.list[p], m.list[i])
  <2>1. PICK j \in Places(m) : SameEntry(r.list[p], m.list[j])
    BY DEF From
  <2>2. m.list[j].addr = m.list[i].addr
    BY <1>1, <1>2, <2>1 DEF SameEntry
  <2>3. j = i
    BY <1>3, <2>2 DEF Good, Distinct
  <2> QED BY <2>1, <2>3
<1>5. ASSUME NEW q \in Seen(r, FALSE) PROVE r.list[q].stamp <= r.list[p].stamp
  <2>1. q \in Places(r) /\ r.list[q].life \in MountedLives(r)
    BY DEF Seen, MountedLives
  <2>2. PICK k \in Seen(m, FALSE) : m.list[k].life = r.list[q].life
    BY <2>1 DEF MountedLives
  <2>3. PICK j \in Places(m) : SameEntry(r.list[q], m.list[j])
    BY <2>1 DEF From
  <2>4. k \in Places(m)
    BY DEF Seen
  <2>5. j = k
    BY <2>2, <2>3, <2>4 DEF Stamps, SameEntry
  <2>6. m.list[k].stamp <= m.list[i].stamp
    BY <1>1, <2>2 DEF Latest
  <2> QED BY <1>4, <2>3, <2>5, <2>6 DEF SameEntry
<1>6. Latest(r, p)
  BY <1>3, <1>5 DEF Latest
<1>7. FindActive(r, FALSE) = a
  BY <1>0, <1>2, <1>6, ActiveIs
<1> QED BY <1>7 DEF a

\* A device becomes active when it is added or activated.
LEMMA InsertedIsActive ==
  ASSUME NEW m, Typed(m), Stamps(m), NEW l \in Logo, NEW a \in Addr, NEW up \in BOOLEAN,
         Typed(Insert(m, l, a, up))
  PROVE  up => FindActive(Insert(m, l, a, up), FALSE) = a
<1> DEFINE r == Insert(m, l, a, up)
           n == Len(m.list) + 1
<1>1. /\ \A i \in Places(m) : i \in Places(r) /\ i # n /\ r.list[i] = m.list[i]
      /\ \A i \in Places(r) : i = n \/ i \in Places(m)
      /\ n \in Places(r) /\ r.list[n].addr = a /\ r.list[n].mounted = up /\ r.list[n].stamp = m.counter
  BY InsertedList
<1>2. Stamps(r)
  BY InsertStamps
<1>3. Typed(r)
  OBVIOUS
<1>4. m.counter \in Nat /\ \A i \in Places(m) : m.list[i].stamp \in Nat /\ m.list[i].stamp < m.counter
  BY StampsAreNumbers DEF Stamps
<1> HIDE DEF r, n
<1>5. \A i \in Places(r) : r.list[i].stamp <= r.list[n].stamp
  BY <1>1, <1>4
<1>6. ASSUME up PROVE FindActive(r, FALSE) = a
  <2>1. r.list[n].mounted
    BY <1>1, <1>6, Zenon
  <2>2. Latest(r, n)
    BY <1>1, <1>5, <2>1 DEF Latest, Seen
  <2> QED BY <1>1, <1>2, <1>3, <2>2, ActiveIs
<1> QED BY <1>6 DEF r

LEMMA ActivatedIsActive ==
  ASSUME NEW m, Good(m), Stamps(m), NEW a, Online(m, a)
  PROVE  FindActive(SetActive(m, a), FALSE) = a
<1> DEFINE r == SetActive(m, a)
           k == Lowest(SeenAt(m, a))
<1>1. k \in Places(m) /\ m.list[k].addr = a /\ m.list[k].mounted /\ Typed(m)
  BY PlaceOfAddr DEF Good
<1>2. /\ Places(r) = Places(m) /\ r.list[k].stamp = m.counter
      /\ \A j \in Places(m) : j # k => r.list[j].stamp = m.list[j].stamp
      /\ \A j \in Places(m) : r.list[j].addr = m.list[j].addr /\ r.list[j].mounted = m.list[j].mounted
  BY <1>1, StampedList DEF SetActive
<1>3. Typed(r) /\ Stamps(r)
  BY SetActiveGood, SetActiveStamps DEF Good
<1>4. m.counter \in Nat /\ \A i \in Places(m) : m.list[i].stamp \in Nat /\ m.list[i].stamp < m.counter
  BY <1>1, StampsAreNumbers DEF Stamps
<1> HIDE DEF r, k
<1>5. \A i \in Places(r) : r.list[i].stamp <= r.list[k].stamp
  BY <1>1, <1>2, <1>4
<1>6. Latest(r, k)
  BY <1>1, <1>2, <1>5 DEF Latest, Seen
<1>7. FindActive(r, FALSE) = a
  BY <1>1, <1>2, <1>3, <1>6, ActiveIs
<1> QED BY <1>7 DEF r

\* Every step that gives no stamp leaves a list of the old entries.
LEMMA StepFromOld ==
  ASSUME Sound, [Next]_vars, mgr'.counter = mgr.counter
  PROVE  From(mgr, mgr')
<1> USE DEF Sound
<1>0. mgr.counter \in Nat /\ mgr.counter # mgr.counter + 1
  BY DEF Good, Typed
<1>1. ASSUME mgr' = mgr PROVE From(mgr, mgr')
  BY <1>1, StaysFrom
<1>2. CASE Adding
  <2>1. ASSUME NEW l \in Device, AddStart(l) PROVE mgr' = mgr
    BY <2>1 DEF AddStart
  <2>2. CASE CheckRec \/ Check \/ InsertRecFails \/ InsertDevFails
    BY <1>1, <2>2 DEF CheckRec, Check, InsertRecFails, InsertDevFails
  <2>3. ASSUME NEW a \in Addr, NEW up \in BOOLEAN, InsertRec(a, up) \/ InsertDev(a, up) PROVE FALSE
    <3>1. PICK l : mgr' = Insert(mgr, l, a, up)
      BY <2>3 DEF InsertRec, InsertDev, Place
    <3> QED BY <1>0, <3>1 DEF Insert
  <2>4. CASE Undo \/ UndoRec
    BY <2>4, RemoveFrom DEF Undo, UndoRec, Delete
  <2> QED BY <1>1, <1>2, <2>1, <2>2, <2>3, <2>4 DEF Adding
<1>3. CASE Deleting
  <2>1. ASSUME NEW l \in Device, DelStart(l) PROVE mgr' = mgr
    BY <2>1 DEF DelStart
  <2>2. CASE Del \/ DelRec
    BY <2>2, RemoveFrom DEF Del, DelRec, Delete
  <2> QED BY <1>1, <1>3, <2>1, <2>2 DEF Deleting
<1>4. CASE Mounting
  <2>1. ASSUME NEW l \in Device, NEW up \in BOOLEAN, MountDev(l, up) PROVE From(mgr, mgr')
    BY <2>1, MountFrom DEF MountDev
  <2>2. ASSUME NEW up \in BOOLEAN, MountRec(up) PROVE From(mgr, mgr')
    BY <2>2, MountFrom, StaysFrom DEF MountRec
  <2>3. CASE UnmountBack \/ UnmountDev
    BY <2>3, UnmountFrom DEF UnmountBack, UnmountDev
  <2>4. ASSUME NEW l \in Logo, UnmountStart(l) PROVE From(mgr, mgr')
    BY <2>4, UnmountFrom, StaysFrom DEF UnmountStart
  <2>5. ASSUME NEW ups \in SUBSET Places(mgr), MountAll(ups) PROVE From(mgr, mgr')
    BY <2>5, CheckMountFrom DEF MountAll
  <2> QED BY <1>4, <2>1, <2>2, <2>3, <2>4, <2>5 DEF Mounting
<1>5. CASE Using
  <2>1. ASSUME NEW valid \in BOOLEAN, NEW a, Find(valid, a) PROVE mgr' = mgr
    BY <2>1 DEF Find
  <2>2. ASSUME NEW flag \in BOOLEAN, MarkHeld(flag) PROVE From(mgr, mgr')
    BY <2>2, SetValidFrom DEF MarkHeld
  <2>3. ASSUME NEW flag \in BOOLEAN, NEW l \in Logo, MarkLogo(l, flag) PROVE From(mgr, mgr')
    BY <2>3, SetValidFrom DEF MarkLogo, SetValidByLogo
  <2>4. CASE Activate
    <3>1. CASE Online(mgr, held)
      BY <1>0, <2>4, <3>1 DEF Activate, SetActive, Stamped
    <3>2. CASE ~Online(mgr, held)
      BY <1>1, <2>4, <3>2 DEF Activate, SetActive
    <3> QED BY <3>1, <3>2
  <2> QED BY <1>1, <1>5, <2>1, <2>2, <2>3, <2>4 DEF Using
<1>6. CASE UNCHANGED vars
  BY <1>1, <1>6 DEF vars
<1> QED BY <1>2, <1>3, <1>4, <1>5, <1>6 DEF Next

\* The steps that give a stamp.
LEMMA StampSteps ==
  ASSUME Sound, [Next]_vars
  PROVE  \/ mgr'.counter = mgr.counter
         \/ \E a \in Addr, up \in BOOLEAN : InsertRec(a, up) \/ InsertDev(a, up)
         \/ Activate
<1> USE DEF Sound
<1>1. CASE Adding
  <2>1. CASE \E l \in Device : AddStart(l)
    BY <2>1 DEF AddStart
  <2>2. CASE CheckRec \/ Check \/ InsertRecFails \/ InsertDevFails
    BY <2>2 DEF CheckRec, Check, InsertRecFails, InsertDevFails
  <2>3. CASE Undo \/ UndoRec
    BY <2>3, RemoveFrom DEF Undo, UndoRec, Delete, From
  <2> QED BY <1>1, <2>1, <2>2, <2>3 DEF Adding
<1>2. CASE Deleting
  <2>1. CASE \E l \in Device : DelStart(l)
    BY <2>1 DEF DelStart
  <2>2. CASE Del \/ DelRec
    BY <2>2, RemoveFrom DEF Del, DelRec, Delete, From
  <2> QED BY <1>2, <2>1, <2>2 DEF Deleting
<1>3. CASE Mounting
  <2>1. ASSUME NEW l \in Device, NEW up \in BOOLEAN, MountDev(l, up) PROVE mgr'.counter = mgr.counter
    BY <2>1, MountFrom DEF MountDev, From
  <2>2. ASSUME NEW up \in BOOLEAN, MountRec(up) PROVE mgr'.counter = mgr.counter
    BY <2>2, MountFrom DEF MountRec, From
  <2>3. CASE UnmountBack \/ UnmountDev
    BY <2>3, UnmountFrom DEF UnmountBack, UnmountDev, From
  <2>4. ASSUME NEW l \in Logo, UnmountStart(l) PROVE mgr'.counter = mgr.counter
    BY <2>4, UnmountFrom DEF UnmountStart, From
  <2>5. ASSUME NEW ups \in SUBSET Places(mgr), MountAll(ups) PROVE mgr'.counter = mgr.counter
    BY <2>5, CheckMountFrom DEF MountAll, From
  <2> QED BY <1>3, <2>1, <2>2, <2>3, <2>4, <2>5 DEF Mounting
<1>4. CASE Using
  <2>1. ASSUME NEW valid \in BOOLEAN, NEW a, Find(valid, a) PROVE mgr'.counter = mgr.counter
    BY <2>1 DEF Find
  <2>2. ASSUME NEW flag \in BOOLEAN, MarkHeld(flag) PROVE mgr'.counter = mgr.counter
    BY <2>2, SetValidFrom DEF MarkHeld, From
  <2>3. ASSUME NEW flag \in BOOLEAN, NEW l \in Logo, MarkLogo(l, flag) PROVE mgr'.counter = mgr.counter
    BY <2>3, SetValidFrom DEF MarkLogo, SetValidByLogo, From
  <2> QED BY <1>4, <2>1, <2>2, <2>3 DEF Using
<1>5. CASE UNCHANGED vars
  BY <1>5 DEF vars
<1> QED BY <1>1, <1>2, <1>3, <1>4, <1>5 DEF Next

LEMMA Inserts ==
  ASSUME Sound, NEW a \in Addr, NEW up \in BOOLEAN, InsertRec(a, up) \/ InsertDev(a, up)
  PROVE  \E l \in Logo : mgr' = Insert(mgr, l, a, up)
<1>1. op.logo \in Logo
  BY DEF Sound, OpType
<1>2. CASE InsertRec(a, up)
  <2>1. HasRec(op.logo)
    BY <1>2 DEF InsertRec, Sound, Looked
  <2>2. Rec[op.logo] \in Logo
    BY <1>1, <2>1, RecIsLogo
  <2> QED BY <1>2, <2>2 DEF InsertRec, Place
<1>3. CASE InsertDev(a, up)
  BY <1>1, <1>3 DEF InsertDev, Place
<1> QED BY <1>2, <1>3

LEMMA AddedIsActive ==
  ASSUME Sound, Stamps(mgr), Good(mgr'), NEW a \in Addr, NEW up \in BOOLEAN, up,
         InsertRec(a, up) \/ InsertDev(a, up)
  PROVE  FindActive(mgr', FALSE) = a
<1>1. PICK l \in Logo : mgr' = Insert(mgr, l, a, up)
  BY Inserts
<1>2. Typed(mgr) /\ Typed(mgr')
  BY DEF Sound, Good
<1> QED BY <1>1, <1>2, InsertedIsActive

LEMMA NextStamps ==
  ASSUME Sound, Stamps(mgr), [Next]_vars
  PROVE  Stamps(mgr')
<1>0. Good(mgr) /\ Good(mgr') /\ Typed(mgr)
  BY NextSound DEF Sound, Good
<1>1. CASE mgr'.counter = mgr.counter
  BY <1>0, <1>1, StepFromOld, FromStamps DEF Good
<1>2. ASSUME NEW a \in Addr, NEW up \in BOOLEAN, InsertRec(a, up) \/ InsertDev(a, up)
      PROVE  Stamps(mgr')
  BY <1>0, <1>2, Inserts, InsertStamps
<1>3. CASE Activate
  BY <1>0, <1>3, SetActiveStamps DEF Activate
<1> QED BY <1>1, <1>2, <1>3, StampSteps

\* The device used last is the active one, step by step.
LEMMA NextLastUsed ==
  ASSUME Sound, Stamps(mgr), [Next]_vars
  PROVE  LastUsedIsActive
<1>0. Good(mgr) /\ Good(mgr') /\ Stamps(mgr')
  BY NextSound, NextStamps DEF Sound
<1>1. ASSUME Activate, Online(mgr, held) PROVE FindActive(mgr', FALSE) = held
  BY <1>0, <1>1, ActivatedIsActive DEF Activate
<1>2. ASSUME NEW a \in Addr, InsertRec(a, TRUE) \/ InsertDev(a, TRUE)
      PROVE  FindActive(mgr', FALSE) = a
  <2>1. PICK up \in BOOLEAN : up = TRUE
    OBVIOUS
  <2>2. InsertRec(a, up) \/ InsertDev(a, up)
    BY <1>2, <2>1, Zenon
  <2> QED BY <1>0, <2>1, <2>2, AddedIsActive
<1>3. ASSUME MountedLives(mgr') \subseteq MountedLives(mgr), mgr'.counter = mgr.counter,
             FindActive(mgr, FALSE) # NoAddr, Online(mgr', FindActive(mgr, FALSE))
      PROVE  FindActive(mgr', FALSE) = FindActive(mgr, FALSE)
  BY <1>0, <1>3, StepFromOld, ActiveStays
<1> QED BY <1>1, <1>2, <1>3 DEF LastUsedIsActive

-----------------------------------------------------------------------------
(***************************************************************************)
(* Which logos each hold mounts and unmounts.                              *)
(***************************************************************************)
LEMMA UpIs ==
  ASSUME NEW m, NEW l
  PROVE  Up(m, l) <=> \E i \in Places(m) : m.list[i].mounted /\ m.list[i].logo = l
  BY DEF Up, SeenOfLogo, Seen, OfLogo

LEMMA UpAt ==
  ASSUME NEW m, NEW i \in Places(m), m.list[i].mounted
  PROVE  Up(m, m.list[i].logo)
  BY UpIs

LEMMA UpInserted ==
  ASSUME NEW m, Typed(m), NEW l \in Logo, NEW a \in Addr, NEW up \in BOOLEAN, NEW x
  PROVE  /\ Up(m, x) => Up(Insert(m, l, a, up), x)
         /\ Up(Insert(m, l, a, up), x) => Up(m, x) \/ (x = l /\ up)
         /\ up => Up(Insert(m, l, a, up), l)
<1> DEFINE r == Insert(m, l, a, up)
           n == Len(m.list) + 1
<1>1. /\ \A i \in Places(m) : i \in Places(r) /\ r.list[i] = m.list[i]
      /\ \A i \in Places(r) : i = n \/ i \in Places(m)
      /\ n \in Places(r) /\ r.list[n].logo = l /\ r.list[n].mounted = up
  BY InsertedList
<1> HIDE DEF r, n
<1>2. Up(m, x) => Up(r, x)
  BY <1>1, UpIs
<1>3. ASSUME Up(r, x) PROVE Up(m, x) \/ (x = l /\ up)
  <2>1. PICK i \in Places(r) : r.list[i].mounted /\ r.list[i].logo = x
    BY <1>3, UpIs
  <2>2. CASE i = n
    BY <1>1, <2>1, <2>2, Zenon
  <2>3. CASE i \in Places(m)
    BY <1>1, <2>1, <2>3, UpIs
  <2> QED BY <1>1, <2>2, <2>3
<1>4. ASSUME up PROVE Up(r, l)
  <2>1. r.list[n].mounted
    BY <1>1, <1>4, Zenon
  <2> QED BY <1>1, <2>1, UpAt
<1> QED BY <1>2, <1>3, <1>4 DEF r

LEMMA UpSet ==
  ASSUME NEW m, Good(m), NEW i \in Places(m), NEW up \in BOOLEAN, NEW ok \in BOOLEAN, NEW x
  PROVE  /\ x # m.list[i].logo => (Up(SetEntry(m, i, up, ok), x) <=> Up(m, x))
         /\ Up(SetEntry(m, i, up, ok), m.list[i].logo) <=> up
<1> DEFINE r == SetEntry(m, i, up, ok)
           l == m.list[i].logo
<1>1. /\ Places(r) = Places(m) /\ SameEntry(r.list[i], m.list[i]) /\ r.list[i].mounted = up
      /\ \A j \in Places(m) : j # i => r.list[j] = m.list[j]
  BY SetEntryList DEF Good
<1>2. r.list[i].logo = l
  BY <1>1 DEF SameEntry
<1>3. \A j \in Places(m) : j # i => m.list[j].logo # l
  BY DEF Good, Distinct
<1> HIDE DEF r, l
<1>4. ASSUME x # l PROVE Up(r, x) <=> Up(m, x)
  <2>1. \A j \in Places(m) : (r.list[j].mounted /\ r.list[j].logo = x) <=> (m.list[j].mounted /\ m.list[j].logo = x)
    <3> TAKE j \in Places(m)
    <3>1. CASE j = i
      BY <1>2, <1>4, <3>1 DEF l
    <3>2. CASE j # i
      BY <1>1, <3>2
    <3> QED BY <3>1, <3>2
  <2> QED BY <1>1, <2>1, UpIs
<1>5. ASSUME Up(r, l) PROVE up
  <2>1. PICK j \in Places(r) : r.list[j].mounted /\ r.list[j].logo = l
    BY <1>5, UpIs
  <2>2. j = i
    BY <1>1, <1>3, <2>1
  <2> QED BY <1>1, <2>1, <2>2, Zenon
<1>6. ASSUME up PROVE Up(r, l)
  <2>1. r.list[i].mounted
    BY <1>1, <1>6, Zenon
  <2> QED BY <1>1, <1>2, <2>1, UpIs
<1> QED BY <1>4, <1>5, <1>6 DEF r, l

LEMMA UpRemoved ==
  ASSUME NEW m, Good(m), NEW l, NEW x
  PROVE  /\ x # l => (Up(Remove(m, l), x) <=> Up(m, x))
         /\ ~Up(Remove(m, l), l)
<1>1. CASE ~InList(m, l)
  <2>1. ~Up(m, l)
    BY <1>1 DEF InList, OfLogo, Up, SeenOfLogo
  <2> QED BY <1>1, <2>1 DEF Remove
<1>2. CASE InList(m, l)
  <2> DEFINE k == Lowest(OfLogo(m, l))
             r == Remove(m, l)
  <2>1. k \in Places(m) /\ m.list[k].logo = l /\ Typed(m)
    BY <1>2, PlaceOfLogo DEF InList, Good
  <2>2. /\ \A i \in Places(r) : \E j \in Places(m) : j # k /\ r.list[i] = m.list[j]
        /\ \A j \in Places(m) : j # k => \E i \in Places(r) : r.list[i] = m.list[j]
    BY <1>2, <2>1, RemovedList
  <2>3. \A j \in Places(m) : j # k <=> m.list[j].logo # l
    BY <2>1 DEF Good, Distinct
  <2> HIDE DEF k, r
  <2>4. ~Up(r, l)
    <3> SUFFICES ASSUME Up(r, l) PROVE FALSE
      OBVIOUS
    <3>1. PICK i \in Places(r) : r.list[i].mounted /\ r.list[i].logo = l
      BY UpIs
    <3> QED BY <2>2, <2>3, <3>1
  <2>5. ASSUME x # l PROVE Up(r, x) <=> Up(m, x)
    <3>1. ASSUME Up(r, x) PROVE Up(m, x)
      <4>1. PICK i \in Places(r) : r.list[i].mounted /\ r.list[i].logo = x
        BY <3>1, UpIs
      <4>2. PICK j \in Places(m) : r.list[i] = m.list[j]
        BY <2>2
      <4> QED BY <4>1, <4>2, UpIs
    <3>2. ASSUME Up(m, x) PROVE Up(r, x)
      <4>1. PICK j \in Places(m) : m.list[j].mounted /\ m.list[j].logo = x
        BY <3>2, UpIs
      <4>2. PICK i \in Places(r) : r.list[i] = m.list[j]
        BY <2>2, <2>3, <2>5, <4>1
      <4> QED BY <4>1, <4>2, UpIs
    <3> QED BY <3>1, <3>2
  <2> QED BY <2>4, <2>5 DEF r
<1> QED BY <1>1, <1>2

LEMMA UpMounted ==
  ASSUME NEW m, Good(m), NEW l, NEW up \in BOOLEAN, NEW x
  PROVE  /\ x # l => (Up(Mount(m, l, up), x) <=> Up(m, x))
         /\ ~Up(m, l) => (Up(Mount(m, l, up), l) <=> MountAnswer(Mount(m, l, up), l))
<1> DEFINE i == Lowest(OfLogo(m, l))
           r == Mount(m, l, up)
<1>1. CASE ~InList(m, l)
  <2>1. r = m /\ ~MountAnswer(m, l)
    BY <1>1 DEF Mount, MountAnswer
  <2> QED BY <2>1
<1>2. CASE InList(m, l)
  <2>1. i \in Places(m) /\ m.list[i].logo = l /\ Typed(m)
    BY <1>2, PlaceOfLogo DEF InList, Good
  <2>2. CASE m.list[i].mounted
    <3>1. r = m /\ Up(m, l)
      BY <2>1, <2>2, UpAt DEF Mount
    <3> QED BY <3>1
  <2>3. CASE ~m.list[i].mounted
    <3>1. r = SetEntry(m, i, up, up)
      BY <1>2, <2>3 DEF Mount
    <3>2. (x # l => (Up(r, x) <=> Up(m, x))) /\ (Up(r, l) <=> up)
      BY <2>1, <3>1, UpSet
    <3>3. MountAnswer(r, l) <=> up
      <4>1. Good(r)
        BY MountGood
      <4>2. r.list[i].valid = up /\ SameEntry(r.list[i], m.list[i]) /\ Places(r) = Places(m)
        <5>1. m.list[i] \in Entry
          BY <2>1, PlacesAre
        <5>2. With(m.list[i], up, up).valid = up
          BY <5>1, WithIsEntry
        <5>3. r.list[i] = With(m.list[i], up, up)
          <6>1. r.list = [m.list EXCEPT ![i] = With(m.list[i], up, up)]
            BY <2>1, <3>1 DEF SetEntry, Typed
          <6> HIDE DEF r, i
          <6> QED BY <2>1, <6>1 DEF Places
        <5> QED BY <2>1, <3>1, <5>2, <5>3, SetEntryList
      <4> HIDE DEF r, i
      <4>3. r.list[i].logo = l
        BY <2>1, <4>2 DEF SameEntry
      <4>4. i \in OfLogo(r, l)
        BY <2>1, <4>2, <4>3 DEF OfLogo
      <4>5. OfLogo(r, l) \in SUBSET OfLogo(r, l) /\ OfLogo(r, l) # {}
        BY <4>4
      <4>6. /\ Lowest(OfLogo(r, l)) \in Places(r)
            /\ r.list[Lowest(OfLogo(r, l))].logo = l
        BY <4>1, <4>5, PlaceOfLogo
      <4>7. Lowest(OfLogo(r, l)) = i
        BY <2>1, <4>1, <4>2, <4>3, <4>6 DEF Good, Distinct
      <4>8. MountAnswer(r, l) <=> r.list[i].valid
        BY <4>5, <4>7 DEF MountAnswer, InList
      <4> QED BY <4>2, <4>8, Zenon
    <3> HIDE DEF r
    <3> QED BY <3>2, <3>3 DEF r
  <2> QED BY <2>2, <2>3
<1> QED BY <1>1, <1>2

LEMMA UpUnmounted ==
  ASSUME NEW m, Good(m), NEW l, NEW x
  PROVE  /\ x # l => (Up(Unmount(m, l), x) <=> Up(m, x))
         /\ ~Up(Unmount(m, l), l)
<1> DEFINE S == SeenOfLogo(m, l, FALSE)
<1>1. CASE S # {}
  <2>1. S \in SUBSET OfLogo(m, l)
    BY DEF SeenOfLogo
  <2>2. Lowest(S) \in Places(m) /\ m.list[Lowest(S)].logo = l
    BY <1>1, <2>1, PlaceOfLogo
  <2>3. Unmount(m, l) = SetEntry(m, Lowest(S), FALSE, FALSE)
    BY <1>1 DEF Unmount
  <2> HIDE DEF S
  <2>4. PICK up \in BOOLEAN : up = FALSE
    OBVIOUS
  <2>5. Unmount(m, l) = SetEntry(m, Lowest(S), up, up) /\ ~up
    BY <2>3, <2>4, Zenon
  <2> QED BY <2>2, <2>5, UpSet
<1>2. CASE S = {}
  BY <1>2 DEF Unmount, Up
<1> QED BY <1>1, <1>2

LEMMA UpMarked ==
  ASSUME NEW m, Good(m), NEW a, NEW flag \in BOOLEAN, NEW x
  PROVE  Up(SetValid(m, a, flag), x) <=> Up(m, x)
<1>1. CASE Online(m, a)
  <2> DEFINE i == Lowest(SeenAt(m, a))
  <2>1. i \in Places(m) /\ m.list[i].mounted
    BY <1>1, PlaceOfAddr
  <2>2. SetValid(m, a, flag) = SetEntry(m, i, TRUE, flag)
    BY <1>1 DEF SetValid
  <2> HIDE DEF i
  <2>3. Up(m, m.list[i].logo)
    BY <2>1, UpAt
  <2>4. PICK up \in BOOLEAN : up = TRUE
    OBVIOUS
  <2>5. SetValid(m, a, flag) = SetEntry(m, i, up, flag)
    BY <2>2, <2>4, Zenon
  <2>6. /\ x # m.list[i].logo => (Up(SetValid(m, a, flag), x) <=> Up(m, x))
        /\ Up(SetValid(m, a, flag), m.list[i].logo) <=> up
    BY <2>1, <2>5, UpSet
  <2>7. CASE x = m.list[i].logo
    <3>1. Up(SetValid(m, a, flag), m.list[i].logo)
      BY <2>4, <2>6
    <3> QED BY <2>3, <2>7, <3>1
  <2>8. CASE x # m.list[i].logo
    BY <2>6, <2>8
  <2> QED BY <2>7, <2>8
<1>2. CASE ~Online(m, a)
  BY <1>2 DEF SetValid
<1> QED BY <1>1, <1>2

-----------------------------------------------------------------------------
(***************************************************************************)
(* The invariant of the pairs, and the theorem.                            *)
(***************************************************************************)
LEMMA PairsApart ==
  /\ \A l \in DOMAIN Rec : l \in Logo /\ Rec[l] \in Folders /\ l \notin Folders /\ l \in Device
  /\ \A k, l \in DOMAIN Rec : Rec[l] # k /\ (k # l => Rec[k] # Rec[l])
  BY RecAssumption DEF Folders, Device

LEMMA PairedIs ==
  ASSUME NEW m
  PROVE  Paired(m) <=> \A l \in DOMAIN Rec : PairUp(m, l)
  BY DEF Paired, PairUp, Up

\* Without folders there is no mounted one.
LEMMA NoFolderUp ==
  ASSUME Called, NEW l \in DOMAIN Rec, ~HasRec(l)
  PROVE  ~Up(mgr, Rec[l])
<1>1. ~InList(mgr, Rec[l])
  BY PairsApart DEF Called, HasRec
<1> QED BY <1>1 DEF InList, OfLogo, Up, SeenOfLogo

\* Steps that change no mount.
LEMMA QuietPairs ==
  ASSUME PairsOK, UNCHANGED op, \A x : Up(mgr', x) <=> Up(mgr, x)
  PROVE  PairsOK'
<1>1. \A l : PairUp(mgr', l) <=> PairUp(mgr, l)
  BY DEF PairUp
<1> QED BY <1>1 DEF PairsOK, Idle, OthersPaired, OwnPair

\* What a step about one logo leaves of the other pairs: nothing is mounted
\* but the pair of the call.
Others(m, d) == \A l \in DOMAIN Rec \ {d} : PairUp(m, l)

LEMMA OthersStay ==
  ASSUME NEW d, Others(mgr, d), NEW x,
         \/ x = d /\ (x \in Folders => ~Up(mgr', x))
         \/ d \in DOMAIN Rec /\ x = Rec[d],
         \A y : y # x => (Up(mgr', y) <=> Up(mgr, y))
  PROVE  Others(mgr', d)
<1> SUFFICES ASSUME NEW l \in DOMAIN Rec, l # d
             PROVE  PairUp(mgr, l) => PairUp(mgr', l)
  BY DEF Others
<1>1. l # x
  BY PairsApart
<1>2. CASE Rec[l] # x
  BY <1>1, <1>2 DEF PairUp
<1>3. CASE Rec[l] = x
  <2>1. x \in Folders /\ x = d
    BY <1>3, PairsApart
  <2> QED BY <1>3, <2>1, PairsApart DEF PairUp
<1> QED BY <1>2, <1>3

\* A step of the call in progress, to the next or to its end.
Moved(here, there) == /\ op.at = here /\ op'.at = there /\ op'.logo = op.logo
                      /\ op'.paired <=> op.paired

LEMMA GotoMoves ==
  ASSUME OpType, NEW st, Goto(st)
  PROVE  Moved(op.at, st) /\ (op'.pair <=> op.pair)
  BY DEF OpType, Goto, Moved

LEMMA CallGoesOn ==
  ASSUME PairsOK, NEW here, NEW there, here # "idle", Moved(here, there),
         Others(mgr, op.logo) /\ OwnPair =>
           /\ Others(mgr', op.logo)
           /\ IF there = "idle" THEN op.logo \in DOMAIN Rec => PairUp(mgr', op.logo) ELSE OwnPair'
  PROVE  PairsOK' /\ PairAgrees
<1>1. op.paired => Others(mgr, op.logo) /\ OwnPair
  BY DEF PairsOK, Idle, Moved, OthersPaired, Others
<1>2. Others(mgr', op.logo) <=> OthersPaired'
  BY DEF Others, OthersPaired, Moved
<1>3. CASE there = "idle"
  <2>1. PairsOK'
    BY <1>3 DEF PairsOK, Idle, Moved
  <2>2. op.paired => \A l \in DOMAIN Rec : PairUp(mgr', l)
    BY <1>1, <1>3 DEF Others
  <2>3. PairAgrees
    BY <2>2, PairedIs DEF PairAgrees
  <2> QED BY <2>1, <2>3
<1>4. CASE there # "idle"
  <2>1. PairsOK'
    BY <1>1, <1>2, <1>4 DEF PairsOK, Moved
  <2>2. PairAgrees
    BY <1>4 DEF PairAgrees, Idle, Moved
  <2> QED BY <2>1, <2>2
<1> QED BY <1>3, <1>4

\* A step with which a call begins.
LEMMA CallBegins ==
  ASSUME Idle, NEW st, NEW l, Begin(st, l),
         st # "idle" /\ (\A k \in DOMAIN Rec : PairUp(mgr, k)) => Others(mgr', l) /\ OwnPair'
  PROVE  PairsOK' /\ PairAgrees
<1>1. op'.at = st /\ op'.logo = l /\ (op'.paired <=> Paired(mgr))
  BY DEF Begin
<1>2. Others(mgr', l) <=> OthersPaired'
  BY <1>1 DEF Others, OthersPaired
<1>3. PairsOK'
  BY <1>1, <1>2, PairedIs DEF PairsOK, Idle
<1>4. PairAgrees
  BY DEF PairAgrees
<1> QED BY <1>3, <1>4

LEMMA LookingPairs ==
  ASSUME Agreed, CheckRec \/ Check \/ InsertRecFails \/ InsertDevFails
  PROVE  PairsOK' /\ PairAgrees
<1> USE DEF Agreed
<1>0. OpType /\ mgr' = mgr
  BY DEF Sound, CheckRec, Check, InsertRecFails, InsertDevFails
<1>1. CASE CheckRec
  <2>1. PICK st \in {"check", "insertRec"} : Moved("checkRec", st)
    BY <1>0, <1>1 DEF CheckRec, Goto, OpType, Moved
  <2>2. OwnPair => OwnPair'
    BY <1>0, <2>1 DEF OwnPair, Moved, PairUp
  <2> QED BY <1>0, <2>1, <2>2, CallGoesOn
<1>2. CASE InsertRecFails
  <2>1. Moved("insertRec", "check")
    BY <1>0, <1>2 DEF InsertRecFails, OpType, Moved
  <2>2. OwnPair => OwnPair'
    BY <1>0, <2>1 DEF OwnPair, Moved, PairUp
  <2> QED BY <1>0, <2>1, <2>2, CallGoesOn
<1>3. ASSUME NEW here \in {"check", "insert"}, op.at = here, Goto(Failed) PROVE PairsOK' /\ PairAgrees
  <2>1. Moved(here, Failed)
    BY <1>0, <1>3, GotoMoves
  <2>2. CASE op.pair
    <3>1. OwnPair'
      BY <2>1, <2>2 DEF OwnPair, Moved, Failed
    <3> QED BY <1>0, <2>1, <2>2, <3>1, CallGoesOn DEF Failed
  <2>3. CASE ~op.pair
    <3>1. OwnPair => (op.logo \in DOMAIN Rec => PairUp(mgr', op.logo))
      BY <1>0, <1>3, <2>3 DEF OwnPair
    <3> QED BY <1>0, <2>1, <2>3, <3>1, CallGoesOn DEF Failed
  <2> QED BY <2>2, <2>3
<1>4. CASE Check
  <2>1. CASE InList(mgr, op.logo)
    BY <1>3, <1>4, <2>1 DEF Check
  <2>2. CASE ~InList(mgr, op.logo)
    <3>1. Moved("check", "insert") /\ (op'.pair <=> op.pair)
      BY <1>0, <1>4, <2>2, GotoMoves DEF Check
    <3>2. OwnPair => OwnPair'
      BY <1>0, <3>1 DEF OwnPair, Moved, PairUp
    <3> QED BY <1>0, <3>1, <3>2, CallGoesOn
  <2> QED BY <2>1, <2>2
<1>5. CASE InsertDevFails
  BY <1>3, <1>5 DEF InsertDevFails
<1> QED BY <1>1, <1>2, <1>4, <1>5

LEMMA InsertingPairs ==
  ASSUME Agreed, NEW a \in Addr, NEW up \in BOOLEAN, InsertRec(a, up) \/ InsertDev(a, up)
  PROVE  PairsOK' /\ PairAgrees
<1> USE DEF Agreed
<1>0. OpType /\ Typed(mgr) /\ op.logo \in Logo
  BY DEF Sound, Good, OpType
<1>1. CASE InsertRec(a, up)
  <2>1. HasRec(op.logo) /\ op.logo \in DOMAIN Rec /\ Rec[op.logo] \in Logo
    <3>1. HasRec(op.logo)
      BY <1>1 DEF InsertRec, Sound, Looked
    <3>2. op.logo \in DOMAIN Rec
      BY <3>1 DEF HasRec
    <3> QED BY <1>0, <3>1, <3>2, RecIsLogo
  <2>2. Moved("insertRec", "check") /\ (op'.pair <=> up)
    BY <1>0, <1>1 DEF InsertRec, OpType, Moved
  <2>3. mgr' = Insert(mgr, Rec[op.logo], a, up)
    BY <1>1 DEF InsertRec, Place
  <2>4. \A y : /\ Up(mgr, y) => Up(mgr', y)
               /\ Up(mgr', y) => Up(mgr, y) \/ (y = Rec[op.logo] /\ up)
    BY <1>0, <2>1, <2>3, UpInserted
  <2>5. Others(mgr, op.logo) => Others(mgr', op.logo)
    BY <2>1, <2>4, OthersStay
  <2>6. CASE up
    <3>1. OwnPair'
      BY <2>2, <2>6 DEF OwnPair, Moved
    <3> QED BY <2>2, <2>5, <3>1, CallGoesOn
  <2>7. CASE ~up
    <3>1. OwnPair => PairUp(mgr', op.logo)
      BY <2>1, <2>2, <2>4, <2>7 DEF OwnPair, PairUp, Moved
    <3>2. OwnPair => OwnPair'
      BY <2>2, <3>1 DEF OwnPair, Moved
    <3> QED BY <2>2, <2>5, <3>2, CallGoesOn
  <2> QED BY <2>6, <2>7
<1>2. CASE InsertDev(a, up)
  <2>1. op.logo \in Device /\ op.logo \notin Folders
    BY <1>2 DEF InsertDev, Called, Device
  <2>2. mgr' = Insert(mgr, op.logo, a, up)
    BY <1>2 DEF InsertDev, Place
  <2>3. \A y : /\ Up(mgr, y) => Up(mgr', y)
               /\ Up(mgr', y) => Up(mgr, y) \/ (y = op.logo /\ up)
    BY <1>0, <2>2, UpInserted
  <2>4. Others(mgr, op.logo) => Others(mgr', op.logo)
    BY <2>1, <2>3, OthersStay
  <2>5. Moved("insert", IF up THEN "idle" ELSE Failed)
    BY <1>0, <1>2, GotoMoves DEF InsertDev
  <2>6. CASE up
    <3>1. Up(mgr', op.logo)
      BY <1>0, <2>2, <2>6, UpInserted
    <3> QED BY <2>4, <2>5, <2>6, <3>1, CallGoesOn DEF PairUp
  <2>7. CASE ~up /\ op.pair
    <3>1. Moved("insert", "undo")
      BY <2>5, <2>7 DEF Failed
    <3>2. OwnPair'
      BY <3>1 DEF OwnPair, Moved
    <3> QED BY <2>4, <3>1, <3>2, CallGoesOn
  <2>8. CASE ~up /\ ~op.pair
    <3>1. Moved("insert", "idle")
      BY <2>5, <2>8 DEF Failed
    <3>2. OwnPair => (op.logo \in DOMAIN Rec => PairUp(mgr, op.logo))
      BY <2>8, <3>1 DEF OwnPair, Moved
    <3>3. PairUp(mgr, op.logo) => PairUp(mgr', op.logo)
      BY <2>3, <2>8 DEF PairUp
    <3> QED BY <2>4, <3>1, <3>2, <3>3, CallGoesOn
  <2> QED BY <2>6, <2>7, <2>8
<1> QED BY <1>1, <1>2

LEMMA RemovingPairs ==
  ASSUME Agreed, Undo \/ UndoRec \/ Del \/ DelRec
  PROVE  PairsOK' /\ PairAgrees
<1> USE DEF Agreed
<1>0. OpType /\ Good(mgr)
  BY DEF Sound
<1>1. ASSUME NEW here \in {"undo", "del"}, NEW there, Delete(here, there, op.logo),
             there = "idle" => ~HasRec(op.logo), there \in {"undoRec", "delRec", "idle"}
      PROVE  PairsOK' /\ PairAgrees
  <2>1. Moved(here, there)
    BY <1>0, <1>1, GotoMoves DEF Delete
  <2>2. /\ ~Up(mgr', op.logo)
        /\ \A y : y # op.logo => (Up(mgr', y) <=> Up(mgr, y))
    BY <1>0, <1>1, UpRemoved DEF Delete
  <2>3. Others(mgr, op.logo) => Others(mgr', op.logo)
    BY <2>2, OthersStay
  <2>4. CASE there = "idle"
    <3>1. op.logo \in DOMAIN Rec => ~Up(mgr, Rec[op.logo]) /\ Rec[op.logo] # op.logo
      BY <1>1, <2>4, NoFolderUp, PairsApart
    <3>2. op.logo \in DOMAIN Rec => PairUp(mgr', op.logo)
      BY <2>2, <3>1 DEF PairUp
    <3> QED BY <2>1, <2>3, <2>4, <3>2, CallGoesOn
  <2>5. CASE there # "idle"
    <3>1. OwnPair'
      BY <1>1, <2>1, <2>5 DEF OwnPair, Moved
    <3> QED BY <2>1, <2>3, <2>5, <3>1, CallGoesOn
  <2> QED BY <2>4, <2>5
<1>2. ASSUME NEW here \in {"undoRec", "delRec"}, HasRec(op.logo), Delete(here, "idle", Rec[op.logo])
      PROVE  PairsOK' /\ PairAgrees
  <2>1. Moved(here, "idle")
    BY <1>0, <1>2, GotoMoves DEF Delete
  <2>2. op.logo \in DOMAIN Rec
    BY <1>2 DEF HasRec
  <2>3. /\ ~Up(mgr', Rec[op.logo])
        /\ \A y : y # Rec[op.logo] => (Up(mgr', y) <=> Up(mgr, y))
    BY <1>0, <1>2, UpRemoved DEF Delete
  <2>4. Others(mgr, op.logo) => Others(mgr', op.logo)
    BY <2>2, <2>3, OthersStay
  <2> QED BY <2>1, <2>3, <2>4, CallGoesOn DEF PairUp
<1>3. CASE Undo
  BY <1>1, <1>3 DEF Undo
<1>4. CASE UndoRec
  BY <1>2, <1>4 DEF UndoRec
<1>5. CASE Del
  BY <1>1, <1>5 DEF Del
<1>6. CASE DelRec
  BY <1>2, <1>6 DEF DelRec
<1> QED BY <1>3, <1>4, <1>5, <1>6

LEMMA MountingPairs ==
  ASSUME Agreed, Mounting
  PROVE  PairsOK' /\ PairAgrees
<1> USE DEF Agreed
<1>0. OpType /\ Good(mgr)
  BY DEF Sound
<1>1. ASSUME NEW l \in Device, NEW up \in BOOLEAN, MountDev(l, up) PROVE PairsOK' /\ PairAgrees
  <2> DEFINE st == IF MountAnswer(mgr', l) /\ RecFolder THEN "mountRec" ELSE "idle"
  <2>1. Idle /\ Begin(st, l) /\ ~Up(mgr, l) /\ mgr' = Mount(mgr, l, up)
    BY <1>1 DEF MountDev, Up
  <2>2. \A y : y # l => (Up(mgr', y) <=> Up(mgr, y))
    BY <1>0, <2>1, UpMounted
  <2>3. Up(mgr', l) <=> MountAnswer(mgr', l)
    BY <1>0, <2>1, UpMounted
  <2>4. ASSUME st # "idle", \A k \in DOMAIN Rec : PairUp(mgr, k) PROVE Others(mgr', l) /\ OwnPair'
    <3>1. l \notin Folders /\ Others(mgr, l)
      BY <2>4 DEF Device, Others
    <3>2. Others(mgr', l)
      BY <2>2, <3>1, OthersStay
    <3>3. op'.at = "mountRec" /\ op'.logo = l /\ Up(mgr', l)
      BY <2>1, <2>3, <2>4 DEF Begin
    <3>4. l \in DOMAIN Rec => ~Up(mgr', Rec[l])
      BY <2>1, <2>2, <2>4, PairsApart DEF PairUp
    <3>5. OwnPair'
      BY <3>3, <3>4 DEF OwnPair
    <3> QED BY <3>2, <3>5
  <2> HIDE DEF st
  <2> QED BY <2>1, <2>4, CallBegins
<1>2. ASSUME NEW up \in BOOLEAN, MountRec(up) PROVE PairsOK' /\ PairAgrees
  <2>1. CASE HasRec(op.logo)
    <3> DEFINE f == Rec[op.logo]
    <3>1. op.logo \in DOMAIN Rec /\ f # op.logo
      BY <2>1, PairsApart DEF HasRec
    <3>2. mgr' = Mount(mgr, f, up)
      BY <1>2, <2>1 DEF MountRec
    <3>3. Moved("mountRec", IF MountAnswer(mgr', f) THEN "idle" ELSE "unmountBack")
      BY <1>0, <1>2, <2>1, GotoMoves DEF MountRec
    <3>4. \A y : y # f => (Up(mgr', y) <=> Up(mgr, y))
      BY <1>0, <3>2, UpMounted
    <3>5. ~Up(mgr, f) => (Up(mgr', f) <=> MountAnswer(mgr', f))
      BY <1>0, <3>2, UpMounted
    <3>6. Others(mgr, op.logo) => Others(mgr', op.logo)
      BY <3>1, <3>4, OthersStay
    <3>7. OwnPair => Up(mgr', op.logo) /\ ~Up(mgr, f)
      BY <3>1, <3>3, <3>4 DEF OwnPair, Moved
    <3> HIDE DEF f
    <3>8. CASE MountAnswer(mgr', f)
      BY <3>3, <3>6, <3>7, <3>8, CallGoesOn DEF PairUp
    <3>9. CASE ~MountAnswer(mgr', f)
      <4>1. Moved("mountRec", "unmountBack")
        BY <3>3, <3>9
      <4>2. OwnPair => OwnPair'
        BY <3>5, <3>7, <3>9, <4>1 DEF OwnPair, Moved, f
      <4> QED BY <3>6, <4>1, <4>2, CallGoesOn
    <3> QED BY <3>8, <3>9
  <2>2. CASE ~HasRec(op.logo)
    <3>1. mgr' = mgr /\ Moved("mountRec", "unmountBack")
      BY <1>0, <1>2, <2>2, GotoMoves DEF MountRec
    <3>2. OwnPair => OwnPair'
      BY <3>1 DEF OwnPair, Moved
    <3> QED BY <3>1, <3>2, CallGoesOn
  <2> QED BY <2>1, <2>2
<1>3. CASE UnmountBack \/ UnmountDev
  <2>1. PICK here \in {"unmountBack", "unmountDev"} : Moved(here, "idle")
    BY <1>0, <1>3, GotoMoves DEF UnmountBack, UnmountDev
  <2>2. /\ ~Up(mgr', op.logo)
        /\ \A y : y # op.logo => (Up(mgr', y) <=> Up(mgr, y))
    BY <1>0, <1>3, UpUnmounted DEF UnmountBack, UnmountDev
  <2>3. Others(mgr, op.logo) => Others(mgr', op.logo)
    BY <2>2, OthersStay
  <2>4. OwnPair => (op.logo \in DOMAIN Rec => PairUp(mgr', op.logo))
    BY <2>1, <2>2, PairsApart DEF OwnPair, Moved, PairUp
  <2> QED BY <2>1, <2>3, <2>4, CallGoesOn
<1>4. ASSUME NEW l \in Logo, UnmountStart(l) PROVE PairsOK' /\ PairAgrees
  <2>1. Idle /\ Begin("unmountDev", l)
    BY <1>4 DEF UnmountStart
  <2>2. op'.at = "unmountDev" /\ op'.logo = l
    BY <2>1 DEF Begin
  <2>3. CASE HasRec(l)
    <3>1. l \in DOMAIN Rec
      BY <2>3 DEF HasRec
    <3>2. /\ ~Up(mgr', Rec[l])
          /\ \A y : y # Rec[l] => (Up(mgr', y) <=> Up(mgr, y))
      BY <1>0, <1>4, <2>3, UpUnmounted DEF UnmountStart
    <3>3. Others(mgr, l) => Others(mgr', l)
      BY <3>1, <3>2, OthersStay
    <3>4. OwnPair'
      BY <2>2, <3>2 DEF OwnPair
    <3> QED BY <2>1, <3>3, <3>4, CallBegins DEF Others
  <2>4. CASE ~HasRec(l)
    <3>1. mgr' = mgr
      BY <1>4, <2>4 DEF UnmountStart
    <3>2. l \in DOMAIN Rec => ~Up(mgr, Rec[l])
      BY <2>4, NoFolderUp
    <3>3. OwnPair'
      BY <2>2, <3>1, <3>2 DEF OwnPair
    <3> QED BY <2>1, <3>1, <3>3, CallBegins DEF Others
  <2> QED BY <2>3, <2>4
<1>5. ASSUME NEW ups \in SUBSET Places(mgr), MountAll(ups) PROVE PairsOK' /\ PairAgrees
  BY <1>5 DEF MountAll, Idle, PairsOK, PairAgrees
<1> QED BY <1>1, <1>2, <1>3, <1>4, <1>5 DEF Mounting

LEMMA StartingPairs ==
  ASSUME Agreed, NEW l \in Device, AddStart(l) \/ DelStart(l)
  PROVE  PairsOK' /\ PairAgrees
<1>1. PICK st \in {"checkRec", "check", "del"} : Begin(st, l)
  BY DEF AddStart, DelStart
<1>2. Idle /\ mgr' = mgr
  BY DEF AddStart, DelStart
<1>3. op'.at = st /\ op'.logo = l
  BY <1>1 DEF Begin
<1>4. (\A k \in DOMAIN Rec : PairUp(mgr, k)) => Others(mgr', l) /\ OwnPair'
  BY <1>2, <1>3 DEF Others, OwnPair
<1> QED BY <1>1, <1>2, <1>4, CallBegins

LEMMA UsingPairs ==
  ASSUME Agreed, Using
  PROVE  PairsOK' /\ PairAgrees
<1> USE DEF Agreed
<1>0. Good(mgr)
  BY DEF Sound
<1>1. UNCHANGED op
  BY DEF Using, Find, MarkHeld, MarkLogo, Activate
<1>2. PairAgrees
  BY <1>1 DEF PairAgrees, Idle
<1>3. PairsOK'
  <2>1. ASSUME NEW valid \in BOOLEAN, NEW a, Find(valid, a) PROVE PairsOK'
    BY <1>1, <2>1, QuietPairs DEF Find
  <2>2. ASSUME NEW flag \in BOOLEAN, MarkHeld(flag) PROVE PairsOK'
    BY <1>0, <1>1, <2>2, UpMarked, QuietPairs DEF MarkHeld
  <2>3. ASSUME NEW flag \in BOOLEAN, NEW l \in Logo, MarkLogo(l, flag) PROVE PairsOK'
    BY <1>0, <1>1, <2>3, UpMarked, QuietPairs DEF MarkLogo, SetValidByLogo
  <2>4. CASE Activate
    BY <1>1, <2>4 DEF Activate, Idle, PairsOK
  <2> QED BY <2>1, <2>2, <2>3, <2>4 DEF Using
<1> QED BY <1>2, <1>3

LEMMA NextPairs ==
  ASSUME Agreed, [Next]_vars
  PROVE  PairsOK' /\ PairAgrees
<1>1. CASE Adding
  BY <1>1, LookingPairs, InsertingPairs, RemovingPairs, StartingPairs DEF Adding
<1>2. CASE Deleting
  BY <1>2, RemovingPairs, StartingPairs DEF Deleting
<1>3. CASE Mounting
  BY <1>3, MountingPairs
<1>4. CASE Using
  BY <1>4, UsingPairs
<1>5. CASE UNCHANGED vars
  <2>1. PairsOK'
    BY <1>5, QuietPairs DEF vars, Agreed
  <2>2. PairAgrees
    BY <1>5 DEF vars, PairAgrees, Idle
  <2> QED BY <2>1, <2>2
<1> QED BY <1>1, <1>2, <1>3, <1>4, <1>5 DEF Next

\* Additions, deletions and mounts are called with devices, and a folder is
\* added only where there are any.
LEMMA NextCalled ==
  ASSUME Sound, Called, [Next]_vars
  PROVE  Called'
<1> USE DEF Sound
<1>1. op'.at \notin {"idle", "unmountDev"} => op'.logo \in Device
  <2>1. ASSUME NEW st, NEW l \in Device, Begin(st, l) PROVE op'.logo \in Device
    BY <2>1 DEF Begin
  <2>2. ASSUME NEW st, op.at \notin {"idle", "unmountDev"}, Goto(st) PROVE op'.logo \in Device
    BY <2>2, GotoMoves DEF Called, Moved
  <2>3. CASE \E l \in Device : AddStart(l) \/ DelStart(l) \/ \E up \in BOOLEAN : MountDev(l, up)
    BY <2>1, <2>3 DEF AddStart, DelStart, MountDev
  <2>4. CASE CheckRec \/ InsertRecFails \/ \E a \in Addr, up \in BOOLEAN : InsertRec(a, up)
    <3>1. op'.logo = op.logo /\ op.at \in {"checkRec", "insertRec"}
      BY <2>4 DEF CheckRec, InsertRecFails, InsertRec, Goto, OpType
    <3> QED BY <3>1 DEF Called
  <2>5. CASE Check \/ InsertDevFails \/ \E a \in Addr, up \in BOOLEAN : InsertDev(a, up)
    BY <2>2, <2>5 DEF Check, InsertDevFails, InsertDev
  <2>6. CASE Undo \/ UndoRec \/ Del \/ DelRec
    BY <2>2, <2>6 DEF Undo, UndoRec, Del, DelRec, Delete
  <2>7. CASE (\E up \in BOOLEAN : MountRec(up)) \/ UnmountBack
    BY <2>2, <2>7 DEF MountRec, UnmountBack
  <2>8. CASE UnmountDev \/ \E l \in Logo : UnmountStart(l)
    BY <2>8, GotoMoves DEF UnmountDev, UnmountStart, Begin, Moved
  <2>9. CASE UNCHANGED op
    BY <2>9 DEF Called
  <2> QED BY <2>3, <2>4, <2>5, <2>6, <2>7, <2>8, <2>9
          DEF Next, Adding, Deleting, Mounting, MountAll, Using, Find, MarkHeld, MarkLogo, Activate, vars
<1>2. ASSUME ~RecFolder, NEW f \in Folders PROVE ~InList(mgr', f)
  <2>0. ~InList(mgr, f) /\ Good(mgr) /\ Typed(mgr)
    BY <1>2 DEF Called, Good
  <2>1. CASE mgr'.counter = mgr.counter
    <3>1. From(mgr, mgr')
      BY <2>1, StepFromOld
    <3> QED BY <2>0, <3>1 DEF From, SameEntry, InList, OfLogo
  <2>2. CASE mgr' = SetActive(mgr, held)
    BY <2>0, <2>2, SetActiveGood
  <2>3. ASSUME NEW l \in Logo, NEW a \in Addr, NEW up \in BOOLEAN, mgr' = Insert(mgr, l, a, up), l # f
        PROVE  ~InList(mgr', f)
    <3>1. /\ \A i \in Places(mgr) : mgr'.list[i] = mgr.list[i]
          /\ \A i \in Places(mgr') : i = Len(mgr.list) + 1 \/ i \in Places(mgr)
          /\ mgr'.list[Len(mgr.list) + 1].logo = l
      BY <2>0, <2>3, InsertedList
    <3> QED BY <2>0, <2>3, <3>1 DEF InList, OfLogo
  <2>4. ASSUME NEW a \in Addr, NEW up \in BOOLEAN, InsertRec(a, up) PROVE FALSE
    BY <1>2, <2>4 DEF InsertRec, Looked, HasRec
  <2>5. ASSUME NEW a \in Addr, NEW up \in BOOLEAN, InsertDev(a, up) PROVE ~InList(mgr', f)
    <3>1. op.logo \in Logo /\ op.logo # f /\ mgr' = Insert(mgr, op.logo, a, up)
      BY <2>5 DEF InsertDev, Place, Called, Device
    <3> QED BY <2>3, <3>1
  <2>6. CASE \E a \in Addr, up \in BOOLEAN : InsertRec(a, up) \/ InsertDev(a, up)
    BY <2>4, <2>5, <2>6
  <2>7. CASE Activate
    BY <2>2, <2>7 DEF Activate
  <2> QED BY <2>1, <2>6, <2>7, StampSteps
<1> QED BY <1>1, <1>2 DEF Called

LEMMA InitAgreed == Init => Agreed
<1> SUFFICES ASSUME Init PROVE Agreed
  OBVIOUS
<1>1. Places(mgr) = {} /\ op.at = "idle"
  BY DEF Init, Empty, Places
<1>2. Stamps(mgr) /\ Called /\ PairsOK
  BY <1>1 DEF Stamps, Called, PairsOK, Idle, InList, OfLogo
<1> QED BY <1>2, InitSound DEF Agreed

LEMMA NextAgreed ==
  ASSUME Agreed, [Next]_vars
  PROVE  Agreed' /\ LastUsedIsActive /\ PairAgrees
BY NextSound, NextStamps, NextCalled, NextPairs, NextLastUsed DEF Agreed

\* The active device is the one used last, and no call that fails half way
\* leaves a recording folder mounted without its device (dev_manager_add,
\* del, mount, unmount, set_active).
THEOREM AnswersAlwaysAgree == Spec => AnswersAgree
<1>1. Init => Agreed
  BY InitAgreed
<1>2. Agreed /\ [Next]_vars => Agreed'
  BY NextAgreed
<1>3. Agreed /\ [Next]_vars => [LastUsedIsActive /\ PairAgrees]_vars
  BY NextAgreed
<1> QED BY <1>1, <1>2, <1>3, PTL DEF Spec, AnswersAgree

=============================================================================
