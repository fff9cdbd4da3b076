---------------------------- MODULE MusicPlayer ----------------------------
(***************************************************************************)
(* Music mode of the speaker: the message loop of app_core                 *)
(* (apps/soundbox/task_manager/music/music.c), the player it drives        *)
(* (apps/common/music/music_player.c), the events of cards that come and   *)
(* go (apps/soundbox/common/dev_status.c) and the change of modes, over    *)
(* the list of devices of DevList.  All of it runs on app_core, but the    *)
(* queue is filled by the drivers, the decoder and the keys, and while a   *)
(* disk is scanned the callback scan_break takes messages out of it.       *)
(*                                                                         *)
(* In the build modelled there is no recording folder, the tone is played  *)
(* when the mode is entered only, and every mode but music is one.  Files  *)
(* have no names: a medium has Files of them, and whether the current one  *)
(* is the first or the last is left open.  Stamps are only compared, so    *)
(* the list is kept with the ranks of the stamps instead.                  *)
(***************************************************************************)
EXTENDS DevList

CONSTANTS Files,      \* files on a medium that has some
          Media,      \* what may be put into a slot
          Keys,       \* keys the user presses
          CycleAll,   \* app_var.cycle_mode is FCYCLE_ALL
          RamFails,   \* whether file_dec_create may find no memory
          Handles,    \* values of magic_cnt, 2^16 in the code
          Inputs      \* bound: events from outside

ASSUME MusicAssumption ==
  /\ Files \in Nat \ {0} /\ Inputs \in Nat /\ Handles \in Nat \ {0}
  /\ Media \subseteq {"files", "corrupt", "empty", "bad"}
  /\ Keys \subseteq {"next", "prev", "changeDev", "pp", "mode"}
  /\ CycleAll \in BOOLEAN /\ RamFails \in BOOLEAN

VARIABLES mgr,    \* dev_mg
          slot,   \* the medium in each slot
          queue,  \* the messages of app_core
          mode,   \* app_curr_task: music, or any other
          tone,   \* the tone of the mode is still playing
          ply,    \* the player
          magic,  \* magic_cnt
          job,    \* the scan app_core is in, and for which way to play
          brk,    \* scandisk_break
          errs,   \* file_err_counter
          back,   \* file_play_direct
          inputs  \* events from outside so far

vars == <<mgr, slot, queue, mode, tone, ply, magic, job, brk, errs, back, inputs>>

Cards == [Logo -> {"none"} \cup Media]
KeyNames == {"start", "first", "next", "prev", "nextDev", "changeDev", "pp", "mode", "quit", "decErr"}
ReadErrors == {"none", "file", "dev"}
Messages == [k: KeyNames] \cup [k: {"in", "out"}, d: Logo]
            \cup [k: {"end"}, err: ReadErrors, magic: 0..(Handles - 1), d: Logo]

Key(k) == [k |-> k]
IsKey(msg) == msg.k \notin {"in", "out"}

NoJob == [at |-> "idle", how |-> "none"]
NoPlayer == [dev |-> NoAddr, fsn |-> FALSE, file |-> FALSE, dec |-> "stop", magic |-> 0]

TypeOK == /\ mgr \in [list: Seq(Entry), counter: Nat]
          /\ slot \in Cards
          /\ queue \in Seq(Messages)
          /\ mode \in {"music", "other"}
          /\ ply \in [dev: Addr \cup {NoAddr}, fsn: BOOLEAN, file: BOOLEAN,
                      dec: {"stop", "wait", "play", "pause", "ended"}, magic: 0..(Handles - 1)]
          /\ job \in [at: {"idle", "scan", "select"}, how: {"none", "first", "breakpoint", "here"}]
          /\ {tone, brk, back} \subseteq BOOLEAN
          /\ magic \in 0..(Handles - 1) /\ errs \in 0..Files /\ inputs \in 0..Inputs

Init == /\ mgr = Empty /\ slot = [l \in Logo |-> "none"]
        /\ queue = <<>> /\ mode = "other" /\ tone = FALSE
        /\ ply = NoPlayer /\ magic = 0 /\ job = NoJob
        /\ brk = FALSE /\ errs = 0 /\ back = FALSE /\ inputs = 0

\* app_task_clear_key_msg, after a mode is left.
WithoutKeys(q) ==
  LET rest[i \in 0..Len(q)] ==
        IF i = 0 THEN <<>> ELSE IF IsKey(q[i]) THEN rest[i - 1] ELSE Append(rest[i - 1], q[i])
  IN rest[Len(q)]

-----------------------------------------------------------------------------
\* The list with the ranks of the stamps.
Ranked(m) ==
  LET rank(i) == Cardinality({j \in Places(m) : m.list[j].stamp < m.list[i].stamp})
  IN [list |-> [i \in Places(m) |-> [m.list[i] EXCEPT !.stamp = rank(i), !.life = 0]],
      counter |-> Len(m.list)]

HasFiles(l) == slot[l] \in {"files", "corrupt"}
Playable(m) == Seen(m, TRUE) # {}

\* music_player_stop(0) and music_player_stop(1)
Stopped(p) == [p EXCEPT !.dec = "stop", !.file = FALSE]
Released(p) == [Stopped(p) EXCEPT !.fsn = FALSE]

\* the player's device is the one of the logo, as music_player_get_phy_dev sees it
PlaysOn(l) == Online(mgr, ply.dev) /\ LogoOf(mgr, ply.dev) = l

\* What music_player_get_play_status calls playing; a decoder that waits for
\* the tone has not started yet.
Playing(p) == p.dec \in {"play", "ended"}

\* a breakpoint that is not looked for when the decoder is at its end
PlaceWhileRunning(m, p) == OnlineValid(m, p.dev) /\ p.file /\ p.dec \in {"play", "pause"}

\* music_player_get_playing_breakpoint finds a place in a file to go on from.
HasPlace(m, p) == OnlineValid(m, p.dev) /\ p.file /\ p.dec \in {"play", "pause", "ended"}

-----------------------------------------------------------------------------
(***************************************************************************)
(* music_player_err_deal, which ends every message: what it makes of the   *)
(* list and the player, and the message it puts into the queue.            *)
(***************************************************************************)
Interrupted(err) == brk /\ err \in {"scan", "noFile"}

\* one error more than the medium has files
WornOutLate(err, p) == err = "decode" /\ errs > (IF p.fsn THEN Files ELSE 0)
WornOut(err, p) == err = "decode" /\ errs >= (IF p.fsn THEN Files ELSE 0)
Lost(err) == err \in {"scan", "devRead", "offline"} /\ ~Interrupted(err)

\* a device without playable files that stays valid
MarkedNever(err, m, p) == m

Marked(err, m, p) ==
  IF WornOut(err, p) \/ (Lost(err) /\ err = "scan" /\ OnlineValid(m, p.dev))
  THEN SetValid(m, p.dev, FALSE)
  ELSE IF Lost(err) /\ OnlineValid(m, p.dev) THEN Unmount(m, LogoOf(m, p.dev)) ELSE m

QuitOr(m, k) == IF Playable(m) THEN k ELSE "quit"

Answered(err, m, p) ==
  CASE Interrupted(err) \/ err \in {"null", "ok"} -> "none"
    [] err = "noRam" -> "quit"
    [] err = "decode" /\ ~WornOut(err, p) -> IF back THEN "prev" ELSE "next"
    [] err = "fileRead" -> "next"
    [] err = "noDev" -> QuitOr(m, "start")
    [] err \in {"noFile", "parm"} /\ OnlineValid(m, p.dev) /\ p.fsn -> "first"
    [] OTHER -> QuitOr(m, "nextDev")

\* a scan that was interrupted leaves its flag
BreakStays(err) == brk' = brk
BreakEnds(err) == brk' = (brk /\ ~Interrupted(err))

ErrDeal(err, m, p, q) ==
  LET m1 == Marked(err, m, p)
      k == Answered(err, m1, p)
  IN /\ mgr' = Ranked(m1)
     /\ ply' = IF Lost(err) /\ HasPlace(m, p) THEN Stopped(p) ELSE p
     /\ queue' = IF k = "none" THEN q ELSE Append(q, Key(k))
     /\ errs' = CASE err = "decode" -> IF WornOut(err, p) THEN 0 ELSE errs + 1
                  [] err = "null" -> errs
                  [] OTHER -> 0
     /\ BreakEnds(err)
     /\ job' = NoJob

-----------------------------------------------------------------------------
(***************************************************************************)
(* Ways to play.  Each stops the decoder first and either fails at once or *)
(* goes on to look at the medium, which is where messages get read.        *)
(***************************************************************************)
GoOn(at, how, p, q) == /\ job' = [at |-> at, how |-> how]
                       /\ ply' = p
                       /\ queue' = q
                       /\ UNCHANGED <<mgr, brk, errs>>

\* on another device, after a scan
PlayOn(l, how, q) ==
  LET p == [Released(ply) EXCEPT !.dev = FindSpec(mgr, l, TRUE)]
  IN IF p.dev = NoAddr THEN ErrDeal("noDev", mgr, p, q) ELSE GoOn("scan", how, p, q)

\* on the same device, with the handle of its last scan
PlayHere(q) ==
  LET p == Stopped(ply)
  IN IF ~OnlineValid(mgr, p.dev) THEN ErrDeal("offline", mgr, p, q)
     ELSE IF ~p.fsn THEN ErrDeal("scan", mgr, p, q)
     ELSE GoOn("select", "here", p, q)

\* past the last or the first file, when all devices are cycled through
PlayAround(next, q) ==
  IF OnlineValid(mgr, ply.dev)
  THEN PlayOn(LogoOf(mgr, IF next THEN FindNext(mgr, ply.dev, TRUE) ELSE FindPrev(mgr, ply.dev, TRUE)), "first", q)
  ELSE PlayHere(q)

Edge(next) == {edge \in BOOLEAN : ~ply.fsn => edge = next}
PlayNeighbour(next, q) ==
  \E edge \in Edge(next) :
    IF CycleAll /\ edge /\ Cardinality(Seen(mgr, TRUE)) > 1 THEN PlayAround(next, q) ELSE PlayHere(q)

\* the answer of file_dec_create and file_dec_open for a file that was found;
\* a decoder that has to wait for the tone is not tried yet.
DecoderAnswers == (IF slot[LogoOf(mgr, ply.dev)] = "files" \/ tone THEN {"ok"} ELSE {"decode"})
                  \cup (IF RamFails THEN {"noRam"} ELSE {})

DecodeStart(err) ==
  /\ magic' = IF err = "noRam" THEN magic ELSE (magic + 1) % Handles
  /\ LET dec == IF err # "ok" THEN "stop" ELSE IF tone THEN "wait" ELSE "play"
         p == [dev |-> ply.dev, fsn |-> ply.fsn, file |-> TRUE, dec |-> dec, magic |-> magic]
     IN ErrDeal(err, IF err = "ok" THEN SetActive(mgr, ply.dev) ELSE mgr, p, queue)

Looking == job.at # "idle"
Medium == LogoOf(mgr, ply.dev)

\* The scan or the search of the file is over.  A place that is kept in a
\* breakpoint may not be in the medium any more.
ScanDone ==
  /\ job.at = "scan"
  /\ LET p == [ply EXCEPT !.fsn = TRUE]
     IN IF brk \/ ~HasFiles(Medium) THEN ErrDeal("scan", mgr, ply, queue)
        ELSE \/ GoOn("select", job.how, p, queue)
             \/ job.how = "breakpoint" /\ ErrDeal("parm", mgr, p, queue)
  /\ UNCHANGED <<slot, mode, tone, magic, back, inputs>>

SelectDone ==
  /\ job.at = "select"
  /\ IF brk \/ ~HasFiles(Medium) THEN ErrDeal("noFile", mgr, ply, queue) /\ UNCHANGED magic
     ELSE \/ \E err \in DecoderAnswers : DecodeStart(err)
          \/ /\ job.how = "breakpoint" /\ UNCHANGED magic
             /\ \/ ErrDeal("noFile", mgr, ply, queue)
                \/ ErrDeal("parm", mgr, [ply EXCEPT !.file = TRUE], queue)
  /\ UNCHANGED <<slot, mode, tone, back, inputs>>

-----------------------------------------------------------------------------
(***************************************************************************)
(* The message loop of music mode.                                         *)
(***************************************************************************)
Take(k) == mode = "music" /\ ~Looking /\ queue # <<>> /\ Head(queue).k = k
Rest == Tail(queue)
KeepMode == UNCHANGED <<slot, mode, tone, magic, inputs>>

\* KEY_MUSIC_PLAYER_START: the active device, from its breakpoint if it has one
Start == /\ Take("start")
         /\ LET a == FindActive(mgr, TRUE)
            IN IF a = NoAddr THEN PlayHere(Rest)
               ELSE IF Playing(ply) /\ PlaysOn(LogoOf(mgr, a)) THEN ErrDeal("null", mgr, ply, Rest)
               ELSE \E how \in {"first", "breakpoint"} : PlayOn(LogoOf(mgr, a), how, Rest)
         /\ UNCHANGED back /\ KeepMode

\* KEY_MUSIC_AUTO_NEXT_DEV and KEY_MUSIC_CHANGE_DEV
ChangeDev == /\ Take("nextDev") \/ Take("changeDev")
             /\ LET a == FindNext(mgr, ply.dev, TRUE)
                IN IF a = NoAddr THEN ErrDeal("null", mgr, ply, Rest)
                   ELSE \E how \in {"first", "breakpoint"} : PlayOn(LogoOf(mgr, a), how, Rest)
             /\ UNCHANGED back /\ KeepMode

PlayNext == /\ Take("next")
            /\ PlayNeighbour(TRUE, Rest)
            /\ back' = FALSE /\ KeepMode

PlayPrev == /\ Take("prev")
            /\ PlayNeighbour(FALSE, Rest)
            /\ back' = TRUE /\ KeepMode

PlayFirst == /\ Take("first")
             /\ PlayHere(Rest)
             /\ UNCHANGED back /\ KeepMode

\* KEY_MUSIC_PLAYER_END: the decoder of the message came to the end of its
\* file, or could not read on.  A read error of another decoder is dropped.
OfThisDecoder(msg) == msg.magic = magic - 1
End == /\ Take("end")
       /\ LET msg == Head(queue)
          IN \/ msg.err = "none" /\ PlayNeighbour(TRUE, Rest)
             \/ msg.err # "none" /\ ~OfThisDecoder(msg) /\ ErrDeal("null", mgr, ply, Rest)
             \/ msg.err = "file" /\ OfThisDecoder(msg) /\ ErrDeal("fileRead", mgr, ply, Rest)
             \/ msg.err = "dev" /\ OfThisDecoder(msg) /\ ErrDeal("devRead", mgr, ply, Rest)
       /\ UNCHANGED back /\ KeepMode

DecErr == /\ Take("decErr")
          /\ ErrDeal("decode", mgr, ply, Rest)
          /\ UNCHANGED back /\ KeepMode

PlayPause == /\ Take("pp")
             /\ ErrDeal("null", mgr, [ply EXCEPT !.dec = CASE @ = "play" -> "pause"
                                                           [] @ = "pause" -> "play"
                                                           [] OTHER -> @], Rest)
             /\ UNCHANGED back /\ KeepMode

\* The mode is left: music_task_close, and the keys in the queue are dropped.
Leave == /\ Take("quit") \/ Take("mode")
         /\ mode' = "other" /\ tone' = FALSE
         /\ ply' = NoPlayer /\ queue' = WithoutKeys(Rest)
         /\ brk' = FALSE /\ errs' = 0 /\ back' = FALSE /\ job' = NoJob
         /\ UNCHANGED <<mgr, slot, magic, inputs>>

-----------------------------------------------------------------------------
(***************************************************************************)
(* Cards that come and go: dev_status_event_filter.                        *)
(***************************************************************************)
Mounts(l) == slot[l] \in {"files", "corrupt", "empty"}

Add(l) == IF InList(mgr, l) THEN mgr' = mgr
          ELSE \E a \in Addr \ Used(mgr) : mgr' = Ranked(Insert(mgr, l, a, Mounts(l)))
AddSucceeds(l) == ~InList(mgr, l) /\ Mounts(l)

\* In music mode the new device is played, once the decoder is stopped.
CardIn == /\ Take("in")
          /\ LET l == Head(queue).d
             IN /\ Add(l)
                /\ ply' = IF AddSucceeds(l) THEN Released(ply) ELSE ply
                /\ queue' = IF AddSucceeds(l) THEN Append(Rest, Key("start")) ELSE Rest
          /\ UNCHANGED <<slot, mode, tone, magic, job, brk, errs, back, inputs>>

\* The device that is played goes: it is stopped before it is deleted.
CardOut == /\ Take("out")
           /\ LET l == Head(queue).d
              IN /\ mgr' = Ranked(Remove(mgr, l))
                 /\ ply' = IF PlaysOn(l) THEN Released(ply) ELSE ply
                 /\ queue' = IF PlaysOn(l) THEN Append(Rest, Key("start")) ELSE Rest
           /\ UNCHANGED <<slot, mode, tone, magic, job, brk, errs, back, inputs>>

-----------------------------------------------------------------------------
(***************************************************************************)
(* Another mode: keys of the player mean nothing to it, a new device or    *)
(* the key of the modes may bring music back.                              *)
(***************************************************************************)
EnterMusic(q) == /\ mode' = "music" /\ tone' = TRUE
                 /\ queue' = WithoutKeys(q)

OtherMode ==
  /\ mode = "other" /\ queue # <<>>
  /\ LET msg == Head(queue)
     IN \/ /\ msg.k = "in" /\ Add(msg.d)
           /\ \/ AddSucceeds(msg.d) /\ EnterMusic(Rest)
              \/ /\ UNCHANGED <<mode, tone>>
                 /\ queue' = IF AddSucceeds(msg.d) THEN Append(Rest, Key("start")) ELSE Rest
        \/ /\ msg.k = "out" /\ mgr' = Ranked(Remove(mgr, msg.d))
           /\ queue' = Rest /\ UNCHANGED <<mode, tone>>
        \/ /\ msg.k = "mode" /\ Playable(mgr)
           /\ EnterMusic(Rest) /\ UNCHANGED mgr
        \/ /\ IsKey(msg)
           /\ queue' = Rest /\ UNCHANGED <<mgr, mode, tone>>
  /\ UNCHANGED <<slot, ply, magic, job, brk, errs, back, inputs>>

-----------------------------------------------------------------------------
(***************************************************************************)
(* music_player_scandisk_break, called by the scan now and then: a new     *)
(* device, the end of the one that is scanned and the key of the modes     *)
(* stop the scan and are sent again; another device that goes is deleted   *)
(* on the spot; every other message is lost.                               *)
(***************************************************************************)
Breaks(msg) == \/ msg.k \in {"in", "mode"}
               \/ msg.k = "out" /\ PlaysOn(msg.d)

ScanBreak ==
  /\ Looking /\ ~brk /\ queue # <<>>
  /\ LET msg == Head(queue)
     IN /\ brk' = Breaks(msg)
        /\ queue' = IF Breaks(msg) THEN Append(Rest, msg) ELSE Rest
        /\ mgr' = IF msg.k = "out" /\ ~Breaks(msg) THEN Ranked(Remove(mgr, msg.d)) ELSE mgr
  /\ UNCHANGED <<slot, mode, tone, ply, magic, job, errs, back, inputs>>

-----------------------------------------------------------------------------
(***************************************************************************)
(* The drivers, the tone, the decoder and the user.                        *)
(***************************************************************************)
Post(msg) == /\ inputs < Inputs
             /\ inputs' = inputs + 1
             /\ queue' = Append(queue, msg)

PutIn(l) == /\ slot[l] = "none"
            /\ \E medium \in Media : slot' = [slot EXCEPT ![l] = medium]
            /\ Post([k |-> "in", d |-> l])
            /\ UNCHANGED <<mgr, mode, tone, ply, magic, job, brk, errs, back>>

TakeOut(l) == /\ slot[l] # "none"
              /\ slot' = [slot EXCEPT ![l] = "none"]
              /\ Post([k |-> "out", d |-> l])
              /\ UNCHANGED <<mgr, mode, tone, ply, magic, job, brk, errs, back>>

Press(k) == /\ Post(Key(k))
            /\ UNCHANGED <<mgr, slot, mode, tone, ply, magic, job, brk, errs, back>>

\* music_tone_play_end_callback
ToneEnd == /\ mode = "music" /\ tone
           /\ tone' = FALSE
           /\ queue' = Append(queue, Key("start"))
           /\ UNCHANGED <<mgr, slot, mode, ply, magic, job, brk, errs, back, inputs>>

\* file_wait_res_handler: the decoder that waited is started.
DecoderRuns == /\ ply.dec = "wait" /\ ~tone
               /\ IF slot[Medium] = "files"
                  THEN ply' = [ply EXCEPT !.dec = "play"] /\ UNCHANGED queue
                  ELSE ply' = [ply EXCEPT !.dec = "stop"] /\ queue' = Append(queue, Key("decErr"))
               /\ UNCHANGED <<mgr, slot, mode, tone, magic, job, brk, errs, back, inputs>>

\* music_player_decode_event_callback; the device the decoder read from is not
\* in the message of the code, no handler looks at it.
DecoderEnds(err) == /\ ply.dec = "play"
                    /\ slot[Medium] # "files" => err # "none"
                    /\ ply' = [ply EXCEPT !.dec = "ended"]
                    /\ Post([k |-> "end", err |-> err, magic |-> ply.magic, d |-> Medium])
                    /\ UNCHANGED <<mgr, slot, mode, tone, magic, job, brk, errs, back>>

MusicLoop == \/ Start \/ ChangeDev \/ PlayNext \/ PlayPrev \/ PlayFirst
             \/ End \/ DecErr \/ PlayPause \/ Leave \/ CardIn \/ CardOut
Scanning == ScanDone \/ SelectDone
AppCore == MusicLoop \/ OtherMode

Outside == \/ \E l \in Logo : PutIn(l) \/ TakeOut(l)
           \/ \E k \in Keys : Press(k)
           \/ \E err \in ReadErrors : DecoderEnds(err)

Next == AppCore \/ Scanning \/ ScanBreak \/ ToneEnd \/ DecoderRuns \/ Outside

Spec == Init /\ [][Next]_vars

\* app_core runs whenever it has a message, a scan ends, and so does a tone.
Fairness == WF_vars(AppCore) /\ WF_vars(Scanning) /\ WF_vars(ToneEnd) /\ WF_vars(DecoderRuns)
FairSpec == Spec /\ Fairness

-----------------------------------------------------------------------------
(***************************************************************************)
(* What music mode promises.                                               *)
(***************************************************************************)
AtRest == queue = <<>> /\ ~Looking /\ ~tone /\ ply.dec # "wait"

\* Nothing is decoded from a device whose file system is gone: whichever of
\* removal, read error and restart was handled first, the decoder was stopped
\* before the device was deleted or unmounted.
PlaysWhatIsMounted == ply.dec # "stop" => Online(mgr, ply.dev)

\* The device that is scanned stays in the list and mounted until the scan
\* is over, although the scan deletes devices itself.
ScanKeepsItsDevice == Looking => Online(mgr, ply.dev)

\* No device is deleted or unmounted under its decoder or its scan.
UsesWhatIsMounted == PlaysWhatIsMounted /\ ScanKeepsItsDevice

\* The break flag that one scan leaves is never there when the next begins:
\* it would stop that scan at its first message, whatever that is.
BreakIsConsumed == ~Looking => ~brk

\* When nothing comes from outside any more, app_core runs out of messages:
\* the errors that put a message into the queue do not do it for ever.
ComesToRest == <>[](inputs < Inputs \/ AtRest)
=============================================================================
