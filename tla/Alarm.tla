------------------------------- MODULE Alarm -------------------------------
(***************************************************************************)
(* The alarms of the speaker: alarm_api.c keeps a table of alarms, in RAM  *)
(* and in the settings store, and writes the earliest of them into the one *)
(* alarm register of the clock, virtual_rtc.c; the tick of the clock finds *)
(* that time come and sends an event, which is handled in the task of the  *)
(* modes (app_common.c), arms the next alarm and has alarm_user.c ring.    *)
(*                                                                         *)
(* A minute of the day stands for the hour and the minute of the code.     *)
(***************************************************************************)
EXTENDS Calendar

CONSTANTS
  N,                 \* M_MAX_ALARM_NUMS
  MinutesPerDay, SecondsPerMinute,
  Modes,             \* the modes the menus offer
  Settable,          \* the times the user sets
  Default,           \* set_rtc_default_time
  RingMax,           \* ALARM_RING_MAX
  Prompt,            \* the clock waits for the task: see Tick
  Days,              \* bound: the days through which the clock runs
  MaxOps             \* bound: operations of the user and restarts

Alarms == 0 .. (N - 1)
Minutes == 0 .. (MinutesPerDay - 1)
Seconds == 0 .. (SecondsPerMinute - 1)
NoDate == [year |-> 0, month |-> 0, day |-> 0]
Time == [date: Date, min: Minutes, sec: Seconds]

\* E_ALARM_MODE_ONCE and E_ALARM_MODE_EVERY_DAY; in the other modes the
\* numbers are days of the week.  An alarm that rings once is like one of
\* every day: what switched it off is commented out.
AnyDay == {{}, {0}}

ASSUME ConstantsOK ==
  /\ N \in Nat \ {0} /\ RingMax \in Nat \ {0} /\ MaxOps \in Nat
  /\ MinutesPerDay \in Nat \ {0} /\ SecondsPerMinute \in Nat \ {0}
  /\ Modes \subseteq SUBSET (0 .. 7)
  /\ Settable \subseteq Time /\ Default \in Time /\ Days \subseteq Date
  /\ Prompt \in BOOLEAN

VARIABLES
  clock, sealed,     \* sys_simulate_time; its crc fits it
  reg,               \* sys_alarm_time and g_alarm_flag
  tab,               \* alarm_tab
  map, mapSw, active,\* alarm_map
  store,             \* VM_ALARM_MASK and VM_ALARM_0 on
  job,               \* the operation of the task and what is left of it
  events,            \* DEVICE_EVENT_FROM_ALM not handled yet
  flag,              \* g_alarm_active_flag
  ring, timers,      \* g_alarm_ring_cnt; timeouts of __alarm_ring_play
  task, running,     \* app_curr_task; its start is done
  ops

table  == <<tab, map, mapSw>>
modes  == <<task, running>>
ringer == <<flag, ring, timers>>
vars == <<clock, sealed, reg, table, active, store, job, events, ringer, modes, ops>>

Alarm == [sw: BOOLEAN, mode: SUBSET (0 .. 7), min: Minutes, date: Date \cup {NoDate}]
NoAlarm == [sw |-> FALSE, mode |-> {}, min |-> 0, date |-> NoDate]
Registers == [date: Date \cup {NoDate}, min: Minutes, on: BOOLEAN]
NotArmed == [date |-> NoDate, min |-> 0, on |-> FALSE]

\* The date is worked out anew when the store is read or the alarm switched
\* on, so that of an alarm that is stored or off is left out.
Undated(alarm) == [alarm EXCEPT !.date = NoDate]
Stores == [valid: BOOLEAN, map: SUBSET Alarms, sw: SUBSET Alarms, rec: [Alarms -> Alarm]]
NoStore == [valid |-> FALSE, map |-> {}, sw |-> {}, rec |-> [i \in Alarms |-> NoAlarm]]

Jobs == [step: {"off", "idle", "arm", "record", "mask", "ring"},
         kind: {"boot", "time", "alarm", "event"}, index: Alarms]
Idle == [step |-> "idle", kind |-> "boot", index |-> 0]
Job(kind, i) == [step |-> "arm", kind |-> kind, index |-> i]

\* What follows a step of an operation; an event is the only one to ring.
StepAfter(j) ==
  CASE j.step = "arm" /\ j.kind = "alarm" -> "record"
    [] (j.step = "arm" /\ j.kind \in {"time", "event"}) \/ j.step = "record" -> "mask"
    [] j.step = "mask" /\ j.kind = "event" -> "ring"
    [] OTHER -> "idle"

\* An alarm kept from before.
Stored(mode, min) ==
  [valid |-> TRUE, map |-> {0}, sw |-> {0},
   rec |-> [NoStore.rec EXCEPT ![0] = [NoAlarm EXCEPT !.sw = TRUE, !.mode = mode, !.min = min]]]

\* The chip starts, with or without a time and an alarm kept from before.
Init ==
  /\ sealed \in BOOLEAN
  /\ IF sealed THEN clock \in Settable ELSE clock = Default
  /\ reg = NotArmed
  /\ tab = [i \in Alarms |-> NoAlarm] /\ map = {} /\ mapSw = {} /\ active = {}
  /\ store = NoStore \/ \E mode \in Modes, min \in Minutes : store = Stored(mode, min)
  /\ job = [Idle EXCEPT !.step = "off"]
  /\ events = 0 /\ flag = FALSE /\ ring = 0 /\ timers = 0
  /\ task = "other" /\ running = FALSE
  /\ ops = 0

-----------------------------------------------------------------------------
(***************************************************************************)
(* When an alarm is due                                                    *)
(***************************************************************************)

\* __alarm_calc_time_by_week_mode: the days to the next day of the mode.
\* Mutant: the day itself is not one of those to come.
DaysAheadStrict(mode, w) ==
  LET week == mode \ {0}
      left == {d \in week : d > w}
  IN IF left # {} THEN Min(left) - w ELSE 7 - (w - Min(week))

DaysAhead(mode, w) ==
  LET week == mode \ {0}
      left == {d \in week : d >= w}
  IN IF left # {} THEN Min(left) - w ELSE 7 - (w - Min(week))

\* alarm_calc_real_time_by_index
RealDate(alarm, now) ==
  LET day == IF alarm.min > now.min THEN now.date ELSE NextFewDay(now.date, 1)
  IN IF alarm.mode \in AnyDay THEN day
     ELSE NextFewDay(day, DaysAhead(alarm.mode, Weekday(day)))

\* __alarm_update_all_time, for the alarms of S
Dated(t, S, now) ==
  [i \in Alarms |-> IF i \in S THEN [t[i] EXCEPT !.date = RealDate(t[i], now)] ELSE t[i]]

\* alarm_cmp_time; the seconds of an alarm are 0.
Earlier(a, b) == DateBefore(a.date, b.date) \/ (a.date = b.date /\ a.min < b.min)

Earliest == {i \in mapSw : \A j \in mapSw : ~Earlier(tab[j], tab[i])}

\* __alarm_get_the_earliest, which every operation ends in.
Arm ==
  /\ job.step = "arm"
  /\ active' = Earliest
  /\ IF mapSw = {}
     THEN reg' = NotArmed
     ELSE \E i \in Earliest : reg' = [date |-> tab[i].date, min |-> tab[i].min, on |-> tab[i].sw]
  /\ job' = [job EXCEPT !.step = StepAfter(job)]
  /\ UNCHANGED <<clock, sealed, table, store, events, ringer, modes, ops>>

-----------------------------------------------------------------------------
(***************************************************************************)
(* The operations.  Each changes the table with the interrupts off; the    *)
(* clock may go on before the register and the store are written.          *)
(***************************************************************************)

Free == job.step = "idle" /\ running
Counted == ops < MaxOps /\ ops' = ops + 1

\* rtc_update_time_api: the time is written with the crc of another one.
SetTime(t) ==
  /\ Free /\ Counted
  /\ clock' = t /\ sealed' = FALSE
  /\ tab' = Dated(tab, mapSw, t)
  /\ job' = Job("time", 0)
  /\ UNCHANGED <<reg, map, mapSw, active, store, events, ringer, modes>>

AlarmAdd(i, sw, mode, min) ==
  LET new == [sw |-> sw, mode |-> mode, min |-> min, date |-> NoDate] IN
  /\ Free /\ Counted
  /\ map' = map \cup {i}
  /\ mapSw' = IF sw THEN mapSw \cup {i} ELSE mapSw \ {i}
  /\ tab' = [tab EXCEPT ![i] = IF sw THEN [new EXCEPT !.date = RealDate(new, clock)] ELSE new]
  /\ job' = Job("alarm", i)
  /\ UNCHANGED <<clock, sealed, reg, active, store, events, ringer, modes>>

AlarmDelete(i) ==
  /\ Free /\ Counted
  /\ map' = map \ {i} /\ mapSw' = mapSw \ {i}
  /\ tab' = [tab EXCEPT ![i] = [Undated(@) EXCEPT !.sw = FALSE]]
  /\ job' = Job("alarm", i)
  /\ UNCHANGED <<clock, sealed, reg, active, store, events, ringer, modes>>

\* Mutant: only an alarm that is on is written.
WriteRecordOfOn ==
  /\ job.step = "record"
  /\ store' = [store EXCEPT !.rec[job.index] = IF tab[job.index].sw THEN Undated(tab[job.index]) ELSE @]
  /\ job' = [job EXCEPT !.step = StepAfter(job)]
  /\ UNCHANGED <<clock, sealed, reg, table, active, events, ringer, modes, ops>>

\* alarm_vm_write_info_by_index, and at its end alarm_vm_write_mask
WriteRecord ==
  /\ job.step = "record"
  /\ store' = [store EXCEPT !.rec[job.index] = Undated(tab[job.index])]
  /\ job' = [job EXCEPT !.step = StepAfter(job)]
  /\ UNCHANGED <<clock, sealed, reg, table, active, events, ringer, modes, ops>>

WriteMask ==
  /\ job.step = "mask"
  /\ store' = [store EXCEPT !.valid = TRUE, !.map = map, !.sw = mapSw]
  /\ job' = [job EXCEPT !.step = StepAfter(job)]
  /\ UNCHANGED <<clock, sealed, reg, table, active, events, ringer, modes, ops>>

\* alarm_init: alarm_vm_read_info, or alarm_vm_reset, then alarm_update.
Boot ==
  /\ job.step = "off"
  /\ LET on == {i \in store.map : store.rec[i].sw}
         sw == (store.sw \ store.map) \cup on
         read == [i \in Alarms |-> IF i \in store.map THEN store.rec[i] ELSE NoAlarm]
     IN IF store.valid
        THEN /\ map' = store.map /\ mapSw' = sw /\ UNCHANGED store
             /\ tab' = Dated(read, sw, clock)
        ELSE /\ map' = {} /\ mapSw' = {} /\ UNCHANGED tab
             /\ store' = [NoStore EXCEPT !.valid = TRUE]
  /\ job' = Job("boot", 0)
  /\ UNCHANGED <<clock, sealed, reg, active, events, ringer, modes, ops>>

\* RAM is lost; the time is kept when its crc fits and its memory was.
Restart ==
  /\ Counted
  /\ \/ sealed /\ UNCHANGED <<clock, sealed>>
     \/ clock' = Default /\ sealed' = FALSE
  /\ reg' = NotArmed
  /\ tab' = [i \in Alarms |-> NoAlarm] /\ map' = {} /\ mapSw' = {} /\ active' = {}
  /\ job' = [Idle EXCEPT !.step = "off"]
  /\ events' = 0 /\ flag' = FALSE /\ ring' = 0 /\ timers' = 0
  /\ task' = "other" /\ running' = FALSE
  /\ UNCHANGED store

-----------------------------------------------------------------------------
(***************************************************************************)
(* The clock.  Prompt says that it waits: while an operation has computed  *)
(* with the time but not written the register, and at the end of a minute  *)
(* for the event of that minute and the timeout after a ring has stopped.  *)
(***************************************************************************)

NextSecond ==
  IF clock.sec + 1 < SecondsPerMinute THEN [clock EXCEPT !.sec = @ + 1]
  ELSE IF clock.min + 1 < MinutesPerDay THEN [clock EXCEPT !.sec = 0, !.min = @ + 1]
       ELSE [date |-> Tomorrow(clock.date), min |-> 0, sec |-> 0]

ClockWaits ==
  \/ job.step = "arm"
  \/ NextSecond.sec = 0 /\ (events > 0 \/ (ring = 0 /\ timers > 0))

Matches(t) == reg.on /\ reg.date = t.date /\ reg.min = t.min /\ t.sec = 0

\* set_virtual_rtc_tick, and alm_wakeup_isr out of it
Tick ==
  /\ job.step # "off" /\ clock.date \in Days
  /\ Prompt => ~ClockWaits
  /\ clock' = NextSecond /\ sealed' = TRUE
  /\ IF Matches(NextSecond)
     THEN flag' = TRUE /\ events' = events + 1
     ELSE UNCHANGED <<flag, events>>
  /\ UNCHANGED <<reg, table, active, store, job, ring, timers, modes, ops>>

-----------------------------------------------------------------------------
(***************************************************************************)
(* Ringing                                                                 *)
(***************************************************************************)

\* Mutant: the rings of two alarms are added.
RingStartAdds == ring' = ring + RingMax /\ timers' = timers + 1

\* alarm_ring_start
RingStart ==
  IF ring = 0 THEN ring' = RingMax /\ timers' = timers + 1 ELSE UNCHANGED <<ring, timers>>

\* alarm_stop
AlarmStop == flag' = FALSE /\ ring' = 0

\* alarm_sys_event_handler, as far as alarm_update_info_after_isr
AlarmEvent ==
  /\ Free /\ events > 0
  /\ events' = events - 1
  /\ tab' = Dated(tab, active, clock)
  /\ job' = Job("event", 0)
  /\ UNCHANGED <<clock, sealed, reg, map, mapSw, active, store, ringer, modes, ops>>

\* The rest of it: ring, or go to the clock's mode, which Bluetooth mode and
\* a charger may refuse.
Ring ==
  /\ job.step = "ring"
  /\ job' = [job EXCEPT !.step = StepAfter(job)]
  /\ \/ task = "rtc" /\ RingStart /\ UNCHANGED <<flag, modes>>
     \/ task # "rtc" /\ task' = "rtc" /\ running' = FALSE /\ UNCHANGED ringer
     \/ task # "rtc" /\ UNCHANGED <<modes, ringer>>
  /\ UNCHANGED <<clock, sealed, reg, table, active, store, events, ops>>

\* The user goes to the clock's mode or leaves it.
SwitchTask ==
  /\ Free /\ Counted
  /\ task' \in {"rtc", "other"} \ {task} /\ running' = FALSE
  /\ UNCHANGED <<clock, sealed, reg, table, active, store, job, events, ringer>>

\* The start of a mode; for the clock's it is rtc_task_start.
TaskStart ==
  /\ job.step = "idle" /\ ~running /\ running' = TRUE
  /\ IF task = "rtc" /\ flag THEN RingStart ELSE UNCHANGED <<ring, timers>>
  /\ UNCHANGED <<clock, sealed, reg, table, active, store, job, events, flag, task, ops>>

\* Mutant: the timeout is not added again.
RingTimerOnce ==
  /\ timers > 0
  /\ IF ring > 0 /\ task = "rtc"
     THEN ring' = ring - 1 /\ timers' = timers - 1 /\ UNCHANGED flag
     ELSE AlarmStop /\ timers' = timers - 1
  /\ UNCHANGED <<clock, sealed, reg, table, active, store, job, events, modes, ops>>

\* __alarm_ring_play: a timeout that finds the tone playing changes nothing.
RingTimer ==
  /\ timers > 0
  /\ IF ring > 0 /\ task = "rtc"
     THEN ring' = ring - 1 /\ UNCHANGED <<flag, timers>>
     ELSE AlarmStop /\ timers' = timers - 1
  /\ UNCHANGED <<clock, sealed, reg, table, active, store, job, events, modes, ops>>

\* alarm_event_handler: the key is taken.
KeyStop ==
  /\ flag /\ AlarmStop
  /\ UNCHANGED <<clock, sealed, reg, table, active, store, job, events, timers, modes, ops>>

Next ==
  \/ Restart \/ Boot
  \/ \E t \in Settable : SetTime(t)
  \/ \E i \in Alarms, sw \in BOOLEAN, mode \in Modes, m \in Minutes : AlarmAdd(i, sw, mode, m)
  \/ \E i \in Alarms : AlarmDelete(i)
  \/ AlarmEvent \/ Arm \/ WriteRecord \/ WriteMask \/ Ring
  \/ Tick
  \/ SwitchTask \/ TaskStart \/ RingTimer \/ KeyStop

\* Timeouts come, and find the tone at its end again and again.
Spec == Init /\ [][Next]_vars /\ WF_vars(RingTimer)

-----------------------------------------------------------------------------
(***************************************************************************)
(* Properties                                                              *)
(***************************************************************************)

\* Types.
TypeOK ==
  /\ clock \in Time /\ sealed \in BOOLEAN
  /\ reg \in Registers
  /\ tab \in [Alarms -> Alarm] /\ map \subseteq Alarms /\ mapSw \subseteq map /\ active \subseteq Alarms
  /\ store \in Stores
  /\ store.sw \subseteq store.map
  /\ job \in Jobs
  /\ events \in Nat /\ flag \in BOOLEAN /\ ring \in 0 .. RingMax /\ timers \in Nat
  /\ task \in {"rtc", "other"} /\ running \in BOOLEAN
  /\ ops \in 0 .. MaxOps

\* The alarms a user who set them expects to hear at t.
Due(t) == {i \in mapSw : /\ t.min = tab[i].min /\ t.sec = 0
                         /\ (tab[i].mode \in AnyDay \/ TrueWeekday(t.date) \in tab[i].mode)}

\* A tick has the alarms ring that are due then, all of them and no others,
\* on every day of the week and over the end of a month and a year
\* (set_virtual_rtc_tick, __alarm_get_the_earliest).
DueAlarmsRing ==
  [][Tick => LET due == Due(clock') IN
             /\ (events' # events) <=> (due # {})
             /\ due # {} => active = due]_vars

\* Between operations the settings are those a restart would read, and an
\* operation cut off by one leaves all alarms but its own as they were
\* (alarm_vm_write_info_by_index, alarm_vm_read_info).
BeingWritten(i) ==
  job.kind = "alarm" /\ job.index = i /\ job.step \in {"arm", "record", "mask"}
Stands(i) == /\ i \in map <=> i \in store.map
             /\ i \in map => store.rec[i] = Undated(tab[i])
StoreAgrees ==
  job.step # "off" =>
    /\ mapSw = {i \in map : tab[i].sw}
    /\ \A i \in Alarms : BeingWritten(i) \/ Stands(i)

\* An alarm that rings stops by itself, whatever modes and alarms come
\* meanwhile, and leaves the next key to the mode (__alarm_ring_play).
RingEnds == (ring > 0) ~> (ring = 0 /\ ~flag)

\* The armed alarm is the next one to ring: its time is to come.
ArmedIsNext ==
  job.step = "idle" /\ events = 0 /\ reg.on =>
    \/ DateBefore(clock.date, reg.date)
    \/ clock.date = reg.date /\ clock.min < reg.min
=============================================================================
