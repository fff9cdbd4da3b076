----------------------------- MODULE ModeSwitch -----------------------------
(***************************************************************************)
(* How the speaker changes its mode, starts and ends the Bluetooth stack   *)
(* and switches itself off: app_main.c, app_task_switch.c, app_common.c,   *)
(* power_off.c and the loops of the modes of the demo board (Bluetooth,    *)
(* FM, clock, idle).                                                       *)
(*                                                                         *)
(* One task, app_core, runs one mode function at a time.  Each of them     *)
(* takes messages from one queue, handles them, and at its tail leaves     *)
(* when another mode was asked for.  Keys, alarms, events of the stack,    *)
(* callbacks of timers and of prompt tones all come through that queue, so *)
(* each of them is handled later than it was caused, perhaps in the loop   *)
(* of the next mode.                                                       *)
(***************************************************************************)
EXTENDS Naturals, SequencesExt

CONSTANT Inputs     \* how often a key is pressed, an alarm comes due, the
                    \* phone begins a call, phone audio or music
ASSUME InputsAssumption == Inputs \in Nat

VARIABLES app,      \* what app_core and the modules it calls keep, and their
                    \* queue
          call,     \* get_call_status
          link,     \* the phone's links for phone audio and music
          inputs,   \* inputs so far
          low       \* the battery was reported low (vbat_timer_delete: once)
switchVars == <<app, call, link, inputs, low>>

None == "none"
\* app_task_list, and the modes whose number idle.c accepts as the last one.
Listed == <<"bt", "fm", "rtc">>
AppModes == {"bt", "fm", "rtc", "idle"}
KeyMsgs == {"mode", "off", "on"}
Ticks == {"exitTick", "offTick", "phoneTick"}
ToneOf == [bt |-> "btTone", fm |-> "fmTone", rtc |-> "rtcTone"]
BtMsgs == {"initOk", "music+", "music-", "phone+", "phone-"}
Callbacks == Ticks \cup {"btTone", "fmTone", "rtcTone"}
Msgs == KeyMsgs \cup Callbacks \cup BtMsgs \cup {"low", "alarm", "switch"}

\* Booted without a charger: app_main begins in idle, whose first entry reads
\* from the store which mode was last.
SwitchInit ==
    /\ \E last \in {"bt", "fm", "rtc"} :
         app = [curr |-> "idle", next |-> None, prev |-> last, at |-> "idle",
                keys |-> TRUE, amp |-> FALSE, fm |-> FALSE,
                initStart |-> FALSE, initOk |-> FALSE, exitFlag |-> TRUE,
                exiting |-> FALSE, waitExit |-> FALSE, force |-> FALSE,
                offFlag |-> FALSE, pressed |-> FALSE, timers |-> {},
                stack |-> "off", a2dp |-> FALSE, esco |-> FALSE,
                tone |-> None, queue |-> <<>>]
    /\ call = "hangup" /\ link = {} /\ inputs = 0 /\ low = FALSE
-----------------------------------------------------------------------------
Posted(a, m) == [a EXCEPT !.queue = Append(@, m)]
Kept(q, ms) ==
    LET rest[i \in 0 .. Len(q)] ==
          CASE i = 0 -> <<>>
            [] i # 0 /\ q[i] \in ms -> rest[i - 1]
            [] OTHER -> Append(rest[i - 1], q[i])
    IN  rest[Len(q)]
Without(a, ms) == [a EXCEPT !.queue = Kept(@, ms)]

\* A deleted timer calls nobody any more.
Deleted(a, t) == Without([a EXCEPT !.timers = @ \ {t}], {t})
Armed(a, t) == [a EXCEPT !.timers = @ \cup {t}]

\* A tone that is stopped, or that gives way to another, calls back as well.
ToneStopped(a) ==
    IF a.tone = None THEN a
    ELSE Posted([a EXCEPT !.tone = None], ToneOf[a.tone])
TonePlayed(a, m) == [ToneStopped(a) EXCEPT !.tone = m]

KeysDead(a) == Without([a EXCEPT !.keys = FALSE], KeyMsgs)

\* bt_app_switch_exit_check: 0 in a call; 1 when the stack is off or was never
\* on; else 0 while phone audio is decoded.
Stays(a) ==
    a.curr = "bt" /\ (call # "hangup" \/ (~a.exitFlag /\ a.esco))
\* What the check leaves behind when it refuses.  A power off that was under
\* way is called off for phone audio, not for a call.  A forced one asks the
\* phone to end the audio and looks again every 20 ms.
Refused(a) ==
    IF call # "hangup" THEN a
    ELSE [a EXCEPT !.offFlag = FALSE,
                   !.timers = IF a.force THEN @ \cup {"phoneTick"} ELSE @]

\* app_task_switch_to
SwitchTo(a, m) ==
    CASE a.curr = m -> a
      [] a.curr # m /\ Stays(a) -> Refused(a)
      [] OTHER ->
           Posted([a EXCEPT !.prev = a.curr, !.next = m,
                            !.force = @ /\ (a.curr # "bt" \/ a.exitFlag)],
                  "switch")

\* app_task_switch_next: the first mode of the list after this one that can be
\* entered; no check but that of leaving Bluetooth can fail.
Following(m) ==
    LET at == IF Contains(Listed, m)
              THEN CHOOSE i \in DOMAIN Listed : Listed[i] = m ELSE 0
    IN  Listed[(at % Len(Listed)) + 1]

\* sys_enter_soft_poweroff
SoftPowerOff(a) ==
    IF a.offFlag THEN a ELSE Armed([a EXCEPT !.offFlag = TRUE], "offTick")

\* power_off_deal: the first press looks for a call that rings or goes on; of
\* the following ones the last (POWER_OFF_CNT) switches off.
PowerKey(a, last) ==
    CASE ~a.pressed -> [a EXCEPT !.pressed = (call # "active")]
      [] a.pressed /\ last -> SoftPowerOff(a)
      [] OTHER -> a

\* idle_key_poweron_deal, at the last event of a long press
PowerOn(a, last) ==
    IF last THEN SwitchTo([a EXCEPT !.offFlag = FALSE],
                          IF a.prev \in {"bt", "rtc", "fm"} THEN a.prev
                          ELSE "bt")
    ELSE a

\* bt_task_start, called when the mode's tone is over
StackStarted(a) ==
    IF ~a.exitFlag THEN a
    ELSE [a EXCEPT !.exitFlag = FALSE, !.offFlag = FALSE, !.initStart = TRUE,
                   !.stack = "starting"]

\* Mutant: nobody asks whether the mode of the tone has been left.
ToneDoneLate(a, m) ==
    CASE m = "bt" -> StackStarted(a)
      [] m = "fm" -> [a EXCEPT !.fm = TRUE]
      [] m = "rtc" -> [a EXCEPT !.amp = FALSE]

\* The callbacks of the modes' tones come to nothing when the mode has been
\* left meanwhile (..._tone_play_end_callback).
ToneDone(a, m) ==
    CASE a.curr # m -> a
      [] a.curr = m /\ m = "bt" -> StackStarted(a)
      [] a.curr = m /\ m = "fm" -> [a EXCEPT !.fm = TRUE]
      [] a.curr = m /\ m = "rtc" -> [a EXCEPT !.amp = FALSE]

\* bt_no_background_exit_check, every 10 ms
ExitChecked(a) ==
    IF ~a.initOk \/ a.a2dp \/ a.esco THEN a
    ELSE Deleted([a EXCEPT !.exitFlag = TRUE, !.initOk = FALSE,
                           !.initStart = FALSE, !.exiting = FALSE,
                           !.stack = "off"], "exitTick")

\* esco_check_state, again every 20 ms while phone audio is decoded
PhoneChecked(a) ==
    IF a.esco THEN a ELSE SoftPowerOff(Deleted(a, "phoneTick"))

\* bt_connction_status_event_handler.  Once the stack is up, a power off that
\* is under way lets only the end of music through.
BtEvent(a, m) ==
    CASE m = "music-" -> [a EXCEPT !.a2dp = FALSE]
      [] m # "music-" /\ a.initOk /\ a.offFlag -> a
      [] OTHER -> [a EXCEPT !.initOk = @ \/ m = "initOk",
                            !.a2dp = @ \/ m = "music+",
                            !.esco = (@ \/ m = "phone+") /\ m # "phone-"]

\* KEY_CHANGE_MODE, an alarm and POWER_EVENT_POWER_LOW
ModeKey(a) == SwitchTo([a EXCEPT !.pressed = FALSE], Following(a.curr))
AlarmRings(a) == SwitchTo(a, "rtc")
LowBattery(a) == SoftPowerOff([a EXCEPT !.force = TRUE])

\* A message in the loop it meets, its own handler first and app_default_event_
\* deal after it.  `last`: the key event is the last one of its long press.
Dispatched(a, m, last) ==
    CASE m = "mode" -> ModeKey(a)
      [] m = "off" -> PowerKey(a, last)
      [] m = "on" -> IF a.at = "idle" THEN PowerOn(a, last) ELSE a
      [] m = "low" -> LowBattery(a)
      [] m = "alarm" -> AlarmRings(a)
      [] m \in BtMsgs -> IF a.at = "bt" THEN BtEvent(a, m) ELSE a
      [] m = "offTick" -> SwitchTo(Deleted(a, "offTick"), "idle")
      [] m = "exitTick" -> ExitChecked(a)
      [] m = "phoneTick" -> PhoneChecked(a)
      [] m = "switch" -> a
      [] OTHER -> ToneDone(a, CHOOSE t \in DOMAIN ToneOf : ToneOf[t] = m)
-----------------------------------------------------------------------------
\* app_task_exitting, when a mode was asked for
Exitting(a) ==
    KeysDead([a EXCEPT !.curr = a.next, !.next = None, !.amp = FALSE])

\* Mutant: a second switch during the exit finds the timer's handle still there.
BtClosedOnce(a) ==
    LET b == KeysDead(ToneStopped(Deleted(a, "exitTick")))
    IN  IF b.initStart /\ ~b.exiting
        THEN Armed([b EXCEPT !.exiting = TRUE], "exitTick") ELSE b

\* bt_task_close and bt_nobackground_exit: the stack, if it was started, is told
\* to end and asked every 10 ms whether it can.
BtClosed(a) ==
    LET b == KeysDead(ToneStopped(Deleted(a, "exitTick")))
    IN  IF b.initStart THEN Armed([b EXCEPT !.exiting = TRUE], "exitTick")
        ELSE b

\* The beginning of a mode's function, after app_task_clear_key_msg.
EnterBt(a) ==
    TonePlayed([a EXCEPT !.at = "bt", !.exiting = FALSE, !.waitExit = FALSE,
                         !.force = FALSE, !.initStart = FALSE, !.keys = TRUE,
                         !.amp = TRUE], "bt")
EnterFm(a) ==
    TonePlayed([a EXCEPT !.at = "fm", !.keys = TRUE, !.amp = TRUE], "fm")
EnterRtc(a) ==
    TonePlayed([a EXCEPT !.at = "rtc", !.keys = TRUE, !.amp = TRUE], "rtc")
\* os_taskq_flush throws everything away; the power off tone has no callback.
EnterIdle(a) ==
    ToneStopped([a EXCEPT !.at = "idle", !.keys = TRUE, !.amp = FALSE,
                          !.queue = <<>>])
Entered(a) ==
    LET b == Without(a, KeyMsgs)
    IN  CASE b.curr = "bt" -> EnterBt(b)
          [] b.curr = "fm" -> EnterFm(b)
          [] b.curr = "rtc" -> EnterRtc(b)
          [] b.curr = "idle" -> EnterIdle(b)

\* Mutant: a stack that was started ends without a mode being asked for.
BtTailUnasked(a) ==
    CASE a.initStart # a.initOk \/ (~a.initStart /\ a.next = None) -> a
      [] ~a.initStart /\ a.next # None -> Entered(BtClosed(Exitting(a)))
      [] OTHER ->
           LET b == [BtClosed(Exitting(a)) EXCEPT !.waitExit = TRUE]
           IN  IF b.waitExit /\ ~b.exiting
               THEN Entered([b EXCEPT !.waitExit = FALSE, !.amp = FALSE])
               ELSE b

\* The tails of the loops.  Bluetooth is not left while its stack starts up, and
\* when the stack was started, only after it has ended.
BtTail(a) ==
    CASE a.initStart /\ ~a.initOk -> a
      [] ~a.initStart /\ a.next # None -> Entered(BtClosed(Exitting(a)))
      [] OTHER ->
           LET b == IF a.next = None THEN a
                    ELSE [BtClosed(Exitting(a)) EXCEPT !.waitExit = TRUE]
           IN  IF b.waitExit /\ ~b.exiting
               THEN Entered([b EXCEPT !.waitExit = FALSE, !.amp = FALSE])
               ELSE b
FmClosed(a) ==
    LET b == [a EXCEPT !.fm = FALSE]
    IN  IF b.tone = "fm" THEN ToneStopped(b) ELSE b
LoopTail(a) ==
    CASE a.at = "bt" -> BtTail(a)
      [] a.at # "bt" /\ a.next = None -> a
      [] a.at = "fm" /\ a.next # None -> Entered(FmClosed(Exitting(a)))
      [] OTHER -> Entered(Exitting(a))

\* app_core takes a message.  A callback runs inside app_task_get_msg, which may
\* or may not come back to the loop after it.  With the stack go the phone's
\* call and links.
TakeMsg ==
    /\ app.queue # <<>>
    /\ \E last, back \in BOOLEAN :
         LET m == Head(app.queue)
             b == Dispatched([app EXCEPT !.queue = Tail(@)], m, last)
         IN  /\ m \notin Callbacks => back
             /\ app' = IF back THEN LoopTail(b) ELSE b
             /\ call' = IF b.stack = "off" THEN "hangup" ELSE call
             /\ link' = IF b.stack = "off" THEN {} ELSE link
    /\ UNCHANGED <<inputs, low>>

\* A message of no concern here ends in the tail of the loop as well.
OtherMsg ==
    /\ LoopTail(app) # app
    /\ app' = LoopTail(app)
    /\ UNCHANGED <<call, link, inputs, low>>
-----------------------------------------------------------------------------
\* sys_timer: one callback of a timer at a time waits in the queue.
Expires(t) ==
    /\ t \in app.timers /\ ~Contains(app.queue, t)
    /\ app' = Posted(app, t)
    /\ UNCHANGED <<call, link, inputs, low>>

ToneEnds ==
    /\ app.tone # None
    /\ app' = ToneStopped(app)
    /\ UNCHANGED <<call, link, inputs, low>>

\* btstack_init answers when the stack is up.
StackUp ==
    /\ app.stack = "starting"
    /\ app' = Posted([app EXCEPT !.stack = "on"], "initOk")
    /\ UNCHANGED <<call, link, inputs, low>>

Input == inputs < Inputs /\ inputs' = inputs + 1

\* The key tables: in idle only the power key means something, and it switches
\* on; elsewhere it switches off.
Press(k) ==
    /\ Input /\ app.keys
    /\ (k = "on") = (app.curr = "idle")
    /\ app' = Posted(app, k)
    /\ UNCHANGED <<call, link, low>>

\* alarm_sys_event_handler has taken the alarm up.
AlarmDue ==
    /\ Input /\ app' = Posted(app, "alarm")
    /\ UNCHANGED <<call, link, low>>

\* vbat_check, until the handler of the event deletes its timers
BatteryLow ==
    /\ ~low /\ low' = TRUE
    /\ app' = Posted(app, "low")
    /\ UNCHANGED <<call, link, inputs>>

\* The phone: calls, and the links for phone audio (with a call or without, as
\* for voice messages) and for music.
CallBegins(status) ==
    /\ Input /\ app.initOk /\ call = "hangup"
    /\ call' = status
    /\ UNCHANGED <<app, link, low>>
CallEnds ==
    /\ call # "hangup" /\ call' = "hangup"
    /\ UNCHANGED <<app, link, inputs, low>>
LinkOpens(k) ==
    /\ Input /\ app.initOk /\ k \notin link
    /\ link' = link \cup {k}
    /\ app' = Posted(app, IF k = "phone" THEN "phone+" ELSE "music+")
    /\ UNCHANGED <<call, low>>
LinkCloses(k) ==
    /\ k \in link /\ link' = link \ {k}
    /\ app' = Posted(app, IF k = "phone" THEN "phone-" ELSE "music-")
    /\ UNCHANGED <<call, inputs, low>>

\* AUDIO_DEC_EVENT_END: a decoder ends when its data have.
AudioEnds(k) ==
    /\ k \notin link
    /\ IF k = "phone" THEN app.esco /\ app' = [app EXCEPT !.esco = FALSE]
       ELSE app.a2dp /\ app' = [app EXCEPT !.a2dp = FALSE]
    /\ UNCHANGED <<call, link, inputs, low>>

AppCore == TakeMsg \/ OtherMsg
Phone == CallEnds \/ \E k \in {"phone", "music"} : LinkCloses(k)
Outside ==
    \/ \E k \in KeyMsgs : Press(k)
    \/ AlarmDue \/ BatteryLow
    \/ \E status \in {"alert", "active"} : CallBegins(status)
    \/ \E k \in {"phone", "music"} : LinkOpens(k)
SwitchNext ==
    \/ AppCore \/ ToneEnds \/ StackUp \/ Phone \/ Outside
    \/ \E t \in Ticks : Expires(t)
    \/ \E k \in {"phone", "music"} : AudioEnds(k)

SwitchSpec == SwitchInit /\ [][SwitchNext]_switchVars
FairSpec ==
    /\ SwitchSpec
    /\ WF_switchVars(TakeMsg) /\ WF_switchVars(OtherMsg)
    /\ WF_switchVars(ToneEnds) /\ WF_switchVars(StackUp)
    /\ WF_switchVars(CallEnds)
    /\ \A t \in Ticks : WF_switchVars(Expires(t))
    /\ \A k \in {"phone", "music"} : WF_switchVars(LinkCloses(k))
    /\ \A k \in {"phone", "music"} : WF_switchVars(AudioEnds(k))
-----------------------------------------------------------------------------
SwitchTypeOK ==
    /\ app \in [curr : AppModes, next : AppModes \cup {None}, prev : AppModes,
                at : AppModes, keys : BOOLEAN, amp : BOOLEAN, fm : BOOLEAN,
                initStart : BOOLEAN, initOk : BOOLEAN, exitFlag : BOOLEAN,
                exiting : BOOLEAN, waitExit : BOOLEAN, force : BOOLEAN,
                offFlag : BOOLEAN, pressed : BOOLEAN, timers : SUBSET Ticks,
                stack : {"off", "starting", "on"}, a2dp : BOOLEAN,
                esco : BOOLEAN, tone : DOMAIN ToneOf \cup {None},
                queue : Seq(Msgs)]
    /\ call \in {"hangup", "alert", "active"}
    /\ link \subseteq {"phone", "music"}
    /\ inputs \in 0 .. Inputs /\ low \in BOOLEAN

\* The flags of bt.c tell the truth about the stack, which is never started
\* twice and never ended while it starts.
FlagsAgree ==
    /\ app.exitFlag <=> app.stack = "off"
    /\ app.stack = "starting" => app.initStart /\ ~app.initOk
    /\ app.initOk => app.stack = "on" /\ app.initStart

\* Only the mode whose function runs has its hardware: no radio stack outside
\* Bluetooth mode, and no tuner outside FM mode.
OneModeAtATime ==
    /\ app.at # "bt" =>
         app.stack = "off" /\ ~app.initStart /\ "exitTick" \notin app.timers
    /\ app.at # "fm" => ~app.fm

\* A mode that nobody asked to leave has its keys, and Bluetooth and FM have the
\* amplifier.
ModeIsAlive ==
    app.at = app.curr =>
      /\ app.keys
      /\ app.at \in {"bt", "fm"} => app.amp

\* What a late callback, an unfinished start or a second switch could break.
ModesAreSound == FlagsAgree /\ OneModeAtATime /\ ModeIsAlive

\* A switch that was accepted ends in the mode asked for last.
SwitchEnds == app.next # None ~> (app.next = None /\ app.at = app.curr)

\* A battery that runs low during a call switches the speaker off, at the latest
\* when the call has ended ("forced power off" in app_power_manage.c).
LowBatteryEndsInIdle ==
    (call # "hangup" /\ Contains(app.queue, "low")) ~> app.at = "idle"
=============================================================================
