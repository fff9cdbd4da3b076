---------------------------- MODULE DevManager ----------------------------
(***************************************************************************)
(* The device manager (apps/common/dev_manager/dev_manager.c) as its tasks *)
(* see it.  app_core adds, deletes, mounts and unmounts devices; each of   *)
(* these is several holds of dev_mg.mutex, one action each, and between    *)
(* two of them any other task may look a device up, keep the pointer, and  *)
(* later mark the device it thinks it still has.  The task dev_mg adds     *)
(* devices only while app_core waits for it in dev_manager_init, so there  *)
(* is one task at a time that changes the list.                            *)
(*                                                                         *)
(* With the recording folder (TCFG_RECORD_FOLDER_DEV_ENABLE) a device sd0  *)
(* has a second entry sd0_rec, added before it.  Whether mount() succeeds  *)
(* is up to the medium.  The mutex can be taken again by its holder.       *)
(***************************************************************************)
EXTENDS DevList

CONSTANTS RecFolder,  \* TCFG_RECORD_FOLDER_DEV_ENABLE
          Rec,        \* the logo of the recording folder, for logos that have one
          MaxStamp    \* bound: values of dev_mg.counter

HasRec(l) == RecFolder /\ l \in DOMAIN Rec
Folders == {Rec[l] : l \in DOMAIN Rec}
Device == Logo \ Folders    \* what dev_manager_add is called with

ASSUME RecAssumption == /\ RecFolder \in BOOLEAN
                        /\ DOMAIN Rec \subseteq Logo
                        /\ Folders \subseteq Logo /\ Folders \cap DOMAIN Rec = {}
                        /\ \A k, l \in DOMAIN Rec : Rec[k] = Rec[l] => k = l
                        /\ MaxStamp \in Nat

VARIABLES mgr,   \* dev_mg
          op,    \* the call app_core is in
          held   \* a struct __dev * some task keeps

vars == <<mgr, op, held>>

Steps == {"idle", "checkRec", "insertRec", "check", "insert", "undo", "undoRec",
          "del", "delRec", "mountRec", "unmountBack", "unmountDev"}

TypeOK == /\ mgr \in [list: Seq(Entry), counter: Nat]
          /\ op \in [at: Steps, logo: Logo, mount: BOOLEAN, pair: BOOLEAN, paired: BOOLEAN]
          /\ held \in Addr \cup {NoAddr}

Init == /\ mgr = Empty
        /\ op \in [at: {"idle"}, logo: Device, mount: {TRUE}, pair: {FALSE}, paired: {TRUE}]
        /\ held = NoAddr

\* A mounted recording folder has its device mounted beside it.
Paired(m) == \A l \in DOMAIN Rec :
               SeenOfLogo(m, Rec[l], FALSE) # {} => SeenOfLogo(m, l, FALSE) # {}

-----------------------------------------------------------------------------
Goto(step) == op' = [op EXCEPT !.at = step]
Idle == op.at = "idle"
Begin(step, l) == op' = [at |-> step, logo |-> l, mount |-> TRUE, pair |-> FALSE, paired |-> Paired(mgr)]

\* dev_manager_add(logo): the folder first, when there is one
AddStart(l) == /\ Idle
               /\ Begin(IF HasRec(l) THEN "checkRec" ELSE "check", l)
               /\ UNCHANGED <<mgr, held>>

CheckRec == /\ op.at = "checkRec"
            /\ IF InList(mgr, Rec[op.logo]) THEN op' = [op EXCEPT !.at = "check", !.mount = FALSE]
                                            ELSE Goto("insertRec")
            /\ UNCHANGED <<mgr, held>>

\* zalloc, which may fail, and the second hold: the entry stays in the list
\* when mount fails.
Place(l, a, up) == /\ a \notin Used(mgr)
                   /\ mgr.counter < MaxStamp
                   /\ mgr' = Insert(mgr, l, a, up)

InsertRec(a, up) == /\ op.at = "insertRec"
                    /\ Place(Rec[op.logo], a, up)
                    /\ op' = [op EXCEPT !.at = "check", !.mount = up, !.pair = up]
                    /\ UNCHANGED held

InsertRecFails == /\ op.at = "insertRec"
                  /\ op' = [op EXCEPT !.at = "check", !.mount = FALSE]
                  /\ UNCHANGED <<mgr, held>>

\* what dev_manager_add does with an error: it takes both entries out again
\* when the folder was added.
\* Without that:
FailedKeeps == "idle"

Failed == IF op.pair THEN "undo" ELSE "idle"

\* an addition that does not look first
CheckNothing == /\ op.at = "check"
                /\ Goto("insert")
                /\ UNCHANGED <<mgr, held>>

Check == /\ op.at = "check"
         /\ Goto(IF InList(mgr, op.logo) THEN Failed ELSE "insert")
         /\ UNCHANGED <<mgr, held>>

InsertDev(a, up) == /\ op.at = "insert"
                    /\ up => op.mount
                    /\ Place(op.logo, a, up)
                    /\ Goto(IF up THEN "idle" ELSE Failed)
                    /\ UNCHANGED held

InsertDevFails == /\ op.at = "insert"
                  /\ Goto(Failed)
                  /\ UNCHANGED <<mgr, held>>

\* __dev_manager_del, of the device and then of its folder
Delete(here, next, l) == /\ op.at = here
                         /\ mgr' = Remove(mgr, l)
                         /\ Goto(next)
                         /\ UNCHANGED held

Undo == Delete("undo", "undoRec", op.logo)
UndoRec == HasRec(op.logo) /\ Delete("undoRec", "idle", Rec[op.logo])

DelStart(l) == /\ Idle
               /\ Begin("del", l)
               /\ UNCHANGED <<mgr, held>>
Del == Delete("del", IF HasRec(op.logo) THEN "delRec" ELSE "idle", op.logo)
DelRec == HasRec(op.logo) /\ Delete("delRec", "idle", Rec[op.logo])

\* dev_manager_mount(logo): the folder has to mount as well, also for a
\* device that has none.  Its one caller, mult_usb_resume, has unmounted the
\* device first.
MountDev(l, up) ==
  /\ Idle /\ SeenOfLogo(mgr, l, FALSE) = {}
  /\ mgr' = Mount(mgr, l, up)
  /\ Begin(IF MountAnswer(mgr', l) /\ RecFolder THEN "mountRec" ELSE "idle", l)
  /\ UNCHANGED held

MountRec(up) ==
  /\ op.at = "mountRec"
  /\ mgr' = IF HasRec(op.logo) THEN Mount(mgr, Rec[op.logo], up) ELSE mgr
  /\ Goto(IF HasRec(op.logo) /\ MountAnswer(mgr', Rec[op.logo]) THEN "idle" ELSE "unmountBack")
  /\ UNCHANGED held

UnmountBack == /\ op.at = "unmountBack"
               /\ mgr' = Unmount(mgr, op.logo)
               /\ Goto("idle")
               /\ UNCHANGED held

\* dev_manager_unmount(logo), of a device or of a folder
UnmountStart(l) == /\ Idle
                   /\ mgr' = IF HasRec(l) THEN Unmount(mgr, Rec[l]) ELSE mgr
                   /\ Begin("unmountDev", l)
                   /\ UNCHANGED held

UnmountDev == /\ op.at = "unmountDev"
              /\ mgr' = Unmount(mgr, op.logo)
              /\ Goto("idle")
              /\ UNCHANGED held

\* dev_manager_list_check_mount, when PC mode ends
MountAll(ups) == /\ Idle
                 /\ mgr' = CheckMount(mgr, ups)
                 /\ UNCHANGED <<op, held>>

-----------------------------------------------------------------------------
\* A lookup whose answer a task keeps.
Answers(m, valid) == {FindFirst(m, valid), FindLast(m, valid), FindActive(m, valid)}
                     \cup {FindSpec(m, l, valid) : l \in Logo}
                     \cup {FindByIndex(m, k, valid) : k \in 0..Len(m.list)}
                     \cup {FindPrev(m, held, valid), FindNext(m, held, valid)}

Find(valid, a) == /\ a \in Answers(mgr, valid)
                  /\ held' = a
                  /\ UNCHANGED <<mgr, op>>

\* dev_manager_set_valid and dev_manager_set_valid_by_logo: other tasks mark a
\* device valid (enc_write a new recording), app_core itself takes marks away.
MarkHeld(flag) == /\ flag \/ Idle
                  /\ mgr' = SetValid(mgr, held, flag)
                  /\ UNCHANGED <<op, held>>
MarkLogo(l, flag) == /\ flag \/ Idle
                     /\ mgr' = SetValidByLogo(mgr, l, flag)
                     /\ UNCHANGED <<op, held>>

\* dev_manager_set_active, by the player on app_core
Activate == /\ Idle /\ mgr.counter < MaxStamp
            /\ mgr' = SetActive(mgr, held)
            /\ UNCHANGED <<op, held>>

Adding == \/ \E l \in Device : AddStart(l)
          \/ CheckRec \/ Check \/ InsertRecFails \/ InsertDevFails
          \/ \E a \in Addr, up \in BOOLEAN : InsertRec(a, up) \/ InsertDev(a, up)
          \/ Undo \/ UndoRec

Deleting == \/ \E l \in Device : DelStart(l)
            \/ Del \/ DelRec

Mounting == \/ \E l \in Device, up \in BOOLEAN : MountDev(l, up)
            \/ \E up \in BOOLEAN : MountRec(up)
            \/ UnmountBack \/ UnmountDev
            \/ \E l \in Logo : UnmountStart(l)
            \/ \E ups \in SUBSET Places(mgr) : MountAll(ups)

Using == \/ \E valid \in BOOLEAN : \E a \in Answers(mgr, valid) : Find(valid, a)
         \/ \E flag \in BOOLEAN : MarkHeld(flag) \/ \E l \in Logo : MarkLogo(l, flag)
         \/ Activate

Next == Adding \/ Deleting \/ Mounting \/ Using

Spec == Init /\ [][Next]_vars

-----------------------------------------------------------------------------
(***************************************************************************)
(* What the manager promises.                                              *)
(***************************************************************************)

\* A logo is in the list once and so is an address, although the test
\* dev_manager_list_check_by_logo and the insertion are two holds of the
\* mutex: the first-match lookups and dev_manager_check stand on it.
OneEntry == \A i, j \in Places(mgr) :
              i # j => /\ mgr.list[i].logo # mgr.list[j].logo
                       /\ mgr.list[i].addr # mgr.list[j].addr

\* An entry marked as having files to play is a mounted one, whichever of
\* unmount, remount and the marks of other tasks came last: a player that
\* asks for valid devices is never sent to one without a file system.
ValidIsMounted == \A i \in Places(mgr) : mgr.list[i].valid => mgr.list[i].mounted

\* The list is sound between any two holds of the mutex, of any two tasks.
ListIsSound == OneEntry /\ ValidIsMounted

\* The active device is the one that was added or activated last: it becomes
\* active at that moment and stays so until it leaves, another one is used,
\* or a device that was not there is mounted.
MountedLives(m) == {m.list[i].life : i \in Seen(m, FALSE)}
LastUsedIsActive ==
  /\ Activate /\ Online(mgr, held) => FindActive(mgr', FALSE) = held
  /\ \A a \in Addr : InsertRec(a, TRUE) \/ InsertDev(a, TRUE) => FindActive(mgr', FALSE) = a
  /\ LET a == FindActive(mgr, FALSE)
     IN (/\ MountedLives(mgr') \subseteq MountedLives(mgr)
         /\ mgr'.counter = mgr.counter
         /\ a # NoAddr /\ Online(mgr', a)) => FindActive(mgr', FALSE) = a

\* No call of dev_manager_add, del, mount or unmount that fails half way
\* leaves a recording folder mounted whose device is not.
PairAgrees == ~Idle /\ Idle' /\ op.paired => Paired(mgr')

\* What the callers are told of devices stays true from step to step.
AnswersAgree == [][LastUsedIsActive /\ PairAgrees]_vars

=============================================================================
