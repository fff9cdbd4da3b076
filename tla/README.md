# Verification of the AC696x speaker firmware

TLA+ models of the parts of this SDK (JieLi AC696x, CPU br25, application
*soundbox*) whose control is hard to test, model-checked with TLC on small
instances, with theorems for all instances checked by TLAPS.

Contents: 1 the system, 2 the modules and how they correspond to the code, 3 the
runs, 4 the proofs, 5 disagreements between code and comments, 6 what the
models assume and leave out, 7 plan.

## 1. The system

The firmware is a set of RTOS tasks around one main task, `app_core`, which runs
one *mode* at a time (Bluetooth, music, record, FM, line-in, PC, ...). A mode is
a message loop over one queue that drivers, timers, decoders and keys fill. The
demo board (`board_ac696x_demo_cfg.h`) builds Bluetooth, FM and clock (RTC) mode
besides idle; the others are the SDK's to switch on. The first-party code is in `apps/common`, `apps/soundbox` and `cpu/br25`; the
operating system, the file systems, the codecs and the radio stacks are closed
libraries of which `include_lib` has the headers. The repository has no tests
and no documents; what the code is meant to do is in its (Chinese) comments.

### Inventory

`PROJECT.json` lists every component with its files. The ones with control of
their own:

| component | state | operations | interacts with | hard behaviours | correct when |
|---|---|---|---|---|---|
| NOR flash driver `norflash.c` | chip, one 4 KB line of write-back cache with a dirty flag, open count, sync timer | open, close, cached and raw read/write, erase ioctl, timer callback | file systems above (device layer), SPI below, timer thread | power cut between erase and program, command timeouts, timer against writer, requests that span sectors | it is a flat disk; a clean line is on the chip; an error damages the line's sector only; a dirty line gets to the chip |
| Recording `encode_write_file.c`, `audio_enc_file.c` | shared flags of the handle and of the writer, two ring buffers, semaphore, file | open, start, pause, PCM input, encode, write, header update, stop, close | app_core, PCM thread, encoder task, writer task `enc_write`, storage | four tasks, flags without a lock, kill of a task, storage errors, slow storage | nothing lost; a stop that is answered is complete; nobody uses a freed handle; a close returns |
| Device manager `dev_manager.c` | linked list of devices with mount, validity and time stamp | add, delete, mount, unmount, lookups, marks | app_core, task `dev_mg`, player, record mode | test and insertion in two holds of the mutex, half-failed pairs of device and recording folder, pointers kept past the mutex | list sound; valid implies mounted; the last used device is the active one |
| Music mode `music.c`, `music_player.c`, `dev_status.c` | message queue, player (device, scan handle, file, decoder), break flag, error counters, mode | 11 messages, scan with a callback that reads the queue, error handling that posts messages | device manager, decoder, tone, drivers, keys | messages consumed out of order by the scan, late ends of files, retry chains, cards that come and go | plays and scans only what is mounted; an interrupted scan leaves no flag behind; every chain of errors ends |
| Mode switching `app_task_switch.c`, `app_main.c`, `app_common.c`, `bt.c`, `bt_switch_fun.c`, `fm.c`, `rtc.c`, `idle.c`, `power_off.c` | current, next and previous mode, flags of the Bluetooth stack, timers, tone, one queue | switch to and next, power key, low battery, alarm; start and end of the stack | all modes, the closed stack, tones, timers | tones, timers and events handled in the next mode's loop; a switch during the start or the end of the stack; a refused switch | no mode runs beside the stack; the flags tell the truth; an accepted switch ends |
| Recorder file system `nor_rec_fs.c`, `nor_interface.c` | a ring of sectors with headers, number and place of the newest recording in RAM | mount, create, write, close, read, seek, delete | raw NOR | power cut before the header, a full ring, a recording that wraps, a search that must meet its beginning, use after a recording was not found, a close that adds to the length | what is found is whole; a mount finds the newest; a search ends; the oldest make room |
| Pair update `update_tws_new.c`, `app_protocol_ota.c` | sequence numbers, one semaphore, update task on each side, timeout | start, data, verify, burn, stop | phone, the other half of the pair, dual bank library | repeated callbacks, lost sends, late answers, a link or a speaker lost between two burns | the slave changes first; no bank that is not whole is used; nobody stays in an update |
| Alarms `alarm_api.c`, `alarm_user.c`, `virtual_rtc.c` | table in RAM, records and mask in the store, one register, ring counter, flag | set time, add, delete, tick, event, ring, stop | clock interrupt, store, modes, timers | the clock goes on during an operation, restart between two writes, weeks over ends of years, a timeout left from the last ring | the alarm armed is the next one due; every alarm rings; the store agrees with RAM; a ring ends |
| Keys, UART, USB, tones, charging, clocks, sensors, displays | see `PROJECT.json` | | | | |

### How the modelled parts interact

```
  keys, tones, timers, stack --messages--> app_core: which mode  ---> ModeSwitch
                                             |            ^
                              in music mode  |            | alarm: to clock mode
                                             v            |
  keys, drivers, decoder --messages--> music mode     alarms, clock
                                       MusicPlayer    Alarm < Calendar
                                             |  list operations
                                             v
                                       device manager             ---> DevManager
                                             |  mount        (shared: DevList)
                                             v
  recording ---fwrite---> file system (closed) -----> NOR driver  ---> NorFlash
  Recorder     or NorRecFs -------- raw writes -----> (one flash)  implements FlatDisk
               implements RecShelf

  phone --packets--> master ==radio==> slave: one image in two banks ---> TwsOta
```

`MusicPlayer` and `DevManager` are built on the same operators on the list
(`DevList`), so what the player is checked with is the list code itself and not
an idea of it. An alarm meets the modes twice: `Alarm` has the clock's mode and
one other, which may refuse; `ModeSwitch` has all modes, and an alarm as a message
that asks for the clock's. The file systems for media are closed, so `Recorder`
and `NorFlash` are not composed: a write of `Recorder` succeeds, or fails after
any part of it. `NorRecFs` stands on raw writes of `NorFlash`, which bypass the
line, and is used as the recorder uses it; what it takes from below is that an
operation of the chip is done or not.

## 2. The modules

| module | is | lines |
|---|---|---|
| `FlatDisk` | what the NOR driver promises: one array of blocks | 83 |
| `NorFlash` | the NOR driver; instance of `FlatDisk` as refinement | 450 |
| `MCNorFlash` | partition tables for TLC | 14 |
| `NorFlashProofs` | theorems about `NorFlash` | 1645 |
| `Recorder` | recording to a file | 584 |
| `RecorderProofs` | theorems about `Recorder` | 640 |
| `RecShelf` | what a ring of recordings promises: the oldest make room | 29 |
| `NorRecFs` | the recorder file system; instance of `RecShelf` as refinement | 408 |
| `MCNorRecFs` | how far TLC follows a recording that goes astray | 8 |
| `NorRecFsProofs` | theorems about `NorRecFs` | 2513 |
| `DevList` | the list of devices and its operations, as operators | 111 |
| `DevListProofs` | lemmas about the operations | 635 |
| `DevManager` | the device manager and its tasks, over `DevList` | 245 |
| `MCDevManager` | devices for TLC | 10 |
| `DevManagerProofs` | theorems about `DevManager` | 1669 |
| `MusicPlayer` | music mode, over `DevList` | 435 |
| `MusicPlayerProofs` | theorems about `MusicPlayer` | 1148 |
| `TwsOta` | the update of a pair | 525 |
| `TwsOtaProofs` | theorems about `TwsOta` | 5558 |
| `Calendar` | dates, days of the week and their reference | 70 |
| `Alarm` | alarms, store, clock and ring, over `Calendar` | 377 |
| `MCAlarm` | days and modes for TLC; the calendar against its reference | 28 |
| `ModeSwitch` | modes, Bluetooth stack, tones, power off | 397 |
| `AppCoreProofs` | theorems about `Calendar` and `Alarm`, and about `ModeSwitch` | 3857 |

Definitions whose comment begins with *Mutant* (or that say what they leave out)
are plausible bugs. No action uses them; each property is shown to be violated
when the definition after it is replaced by it.

### NorFlash

Every entry point of the driver holds `_norflash.mutex`, so operations exclude
one another; they are split at the chip commands because the power can go
between two of them. `pc` is the next command of the operation in progress,
`why` which operation that is, `req` the rest of a write.

| code | model |
|---|---|
| `_norflash_open`, `_norflash_close` | `Open`, `Close` (then `Erase`, `Program` with `why = "close"`) |
| `_norflash_write` loop | `Write`, and per sector `Erase`/`Program` (evict), `Fill`, `Erase`/`Program` (write through) |
| `_norflash_write_pages` called directly (recorder partitions) | `ProgramRaw`, one page per step |
| ioctl `IOCTL_ERASE_SECTOR` | `EraseIoctl` |
| `_norflash_read` | `NorRead`, an operator: reading changes nothing |
| `_norflash_cache_sync_timer` | `TimerExpires` (hardware), `TimerCallback`, `Erase`, `Program` |
| `_norflash_wait_ok` | `WaitOk`: `while (timeout--)`, with the counter modulo `TimeoutMod` |
| SPI chip, power | `Command` (a busy chip ignores commands), `ChipReady`, `PowerLoss`, `PowerOn` |

A block stands for 512 bytes and is the set of its bits that read as 1: erasing
gives all bits, programming is intersection. So a program without its erase is
seen as what it is. `View` is what the file systems see; `Disk` is `FlatDisk` on
`View`, `req`, `Unsafe` and whether the power is on.

`FlatDisk` has the contents, the rest of the request, the sectors a power cut would
damage now (`unsafe`) and `up`. A request is accepted and stored in pieces, a
sector is erased, and what is stored gets safe (`Settle`). A sector becomes unsafe
only by a request that reaches it, and there are at most two: the line's and the one
of a raw write. Contents are lost by `PowerCut` alone, in the unsafe sectors alone,
and after it the power is off; so a driver that drops a dirty line at a close, an
eviction or a timer does not implement it. `Unsafe` of the driver is the sector of
the line while it is dirty or being written, and what a raw command under way
touches. `PowerLoss` ends with `pc = "off"`; `PowerOn` begins again.

`spent` remembers that a timer callback failed and left the handle of a timer that
is over (`norflash.c:468`, see 5).

### Recorder

Four processes: the owner (`app_core`, `pcm2file_enc_open/start/close`), the
thread that hands over PCM, the encoder task of the closed library calling
`pcm2file_enc_pcm_get` and `pcm2file_enc_output_handler`, and `enc_write`
(`enc_write_file_task`). `owner` and `writer` are program counters; a step ends
wherever another task can see or change something, so each flag write, test,
semaphore operation and buffer operation is its own. Data is counted in units,
not contents: losing, doubling and reordering across the three places shows up
in `file + frame + buf = emitted`. History variables (`emitted`, `promised`,
`acked`) say what a stop was obliged to.

`out_file_frame` has `FrameLen` bytes. At the end of a recording the code reads the
whole rest of the buffer into it (`audio_enc_file.c:308-310`), though up to `BufLen`
may be there. `GetRest` is the read that fits; one that does not is `RestOverruns`,
after which `enc_write` is `"wild"`: it does nothing more in the model, and every
property but the types is about the time before (see 5).

| code | model |
|---|---|
| `pcm2file_enc_open`, `enc_write_file_open` | `Open`, `TaskFails` |
| `pcm2file_enc_start`, pause | `Start`, `Toggle` |
| `pcm2file_enc_close` | `Close`, `CloseInput`, `CloseEncoder`, then |
| `enc_write_file_stop` | `StopBegin`, `StopAnswered`, `StopTick` |
| `enc_write_file_close` | `Handshake`, `Kill`, `Finish` (cut or delete, `Kept`) |
| `pcm2file_enc_write_pcm` | `InputEnter`, `InputLeave` |
| encoder callbacks, `enc_write_file_resume` | `EncGet`, `EncOutput`, `EncReset`, `EncPost` |
| `enc_write_file_task` | `Pend` ... `ParkClear`, one action per statement that touches shared state; `GetRest`, `RestOverruns` |

### DevList, DevManager

`DevList` has the list `dev_mg.list` as a sequence of entries and one operator
per function that reads or changes it under one hold of the mutex. Linked
addresses (`Addr`) are kept because `dev_manager_check` compares addresses and
freed ones are used again. `life` numbers the entries; it is for
`AnswersAgree` and no operation looks at it. `DevManager` adds what happens
between holds: `dev_manager_add` is `AddStart`, `CheckRec`, `InsertRec` or
`InsertRecFails`, `Check`, `InsertDev` or `InsertDevFails`, `Undo`, `UndoRec`;
likewise delete, mount, unmount. Between any two, another task may look up
(`Find`), keep the pointer (`held`) and mark (`MarkHeld`, `MarkLogo`).

### MusicPlayer

One message of `app_core` is one action; a way to play that looks at the medium
sets `job`, and until `ScanDone`/`SelectDone` the callback `scan_break`
(`ScanBreak`) takes messages out of the same queue. `ErrDeal` is
`music_player_err_deal`, called at the end of every message; `Answered` is the
message it posts. `CardIn`, `CardOut` are `dev_status_event_filter`.
`OtherMode` stands for every mode but music. Stamps are replaced by their ranks
(`Ranked`), as they are only compared. Which file plays is not kept; whether it
is the first or last (`Edge`) is left open. `WithoutKeys` is
`app_task_clear_key_msg`. The build is the SDK's with `TCFG_APP_MUSIC_EN` (0 on
the demo board), without the recording folder, with
`MUSIC_DEV_ONLINE_START_AFTER_MOUNT_EN` 1 and without device tones.

### NorRecFs, RecShelf

`flash` is the partition byte by byte, in the model's units; a byte of data is
the recording's number with its position, so a byte that is in the wrong place
or of an older recording is seen as such. `Mixed` is what a second programming
without an erasure leaves.

| code | model |
|---|---|
| `nor_fs_mount`, `rec_pfs_scan` | `Mount`, with `Seen`, `Newest`, `FoundPfs` |
| `nor_fs_open` "w", `recfile_write` | `Create`, `Write`; `Spill` when the position is beyond the room |
| `updata_wav_head_info`, every five seconds | `UpdateHead` |
| `enc_write_file_close`: length less `cut_size`, the format's header rewritten, seek to the end, close | `SeekEndAndClose`, with `End` |
| `fdelete` of a recording that is too short | `Abandon` |
| `nor_fs_open` "r", `recfile_index_scan` | `OpenRead`, with `Walk`, `Hits`; mode `"search"` when the walk never ends |
| `recfile_read`, `recfile_seek`, close, `nor_fs_delete`, `clear_norfs_allfile` | `Read`, `SeekSet`, `SeekCur`, `CloseRead`, `Delete`, `ClearAll` |
| power | `PowerLoss`; `TornWrite` in the middle of the erasures and programs of a write |

A recording may be left unfound and used on from, as in the code: `pfs.sector` is 0
then, a search that does not find its recording goes round for ever (`"search"`), and
the next recording begins in front of the partition as number 1. The flag `astray` is
raised by the three things after which the code itself damages what is on the flash:
such a recording, one closed with more than its room, and an update of the header in
the middle of a recording (see 5). What is claimed of the flash is claimed until then.

`RecShelf` is the ring as its user sees it, a set of numbers: a new recording gets
the next number, and if any leave, the oldest do. It too promises nothing once a
recording went astray.

### TwsOta

Two sides with one queue of packets each. The update task of the closed dual
bank library is `lib`: a bank and a queue of jobs, each of which calls back. The
master's waits on `tws_ota_sem` are program counters (`pc`); between the send and
the wait, the callbacks of both sides run.

| code | model |
|---|---|
| `APP_PROTOCOL_OTA_CHECK`, `tws_ota_open` and its wait | `OtaCheck` (`NoRoom`, `Alone`, `TwsOtaOpen`), `StartWaits` |
| `..._TRANS_DATA`, `tws_ota_data_send_m_to_s` | `TransData`, `DataWaits`, `WritePacket` |
| `..._CHECK_CRC`, `tws_ota_enter_verify`, `tws_ota_exit_verify` | `CheckCrc`, `LastWaits`, `VerifyWaits`, `InfoWaits` |
| callbacks of the master's update task | `MasterWrote`, `MasterVerified`, `MasterBurnt` |
| `deal_sibling_tws_ota_trans` and the slave's callbacks | `SlaveReceives`, `SlaveWrote`, `SlaveVerified`, `SlaveBurnt` |
| `tws_ota_trans_to_sibling`, repeats told by `last_sync_update_sn` | `SendOver`, `Taken`, `Repeats` |
| `tws_ota_timeout`, `tws_ota_stop`, detach, reset | `SlaveTimeout`, `TwsOtaStop`, `Detach`, `Attach`, `Restart` |

`Prompt` says that the waits of the master do not end before what they wait for
has come or can no longer come; it limits nothing else. With `Prompt = FALSE` a
timeout may end a wait at any time, as a radio that is slow enough makes it (see 5).
The phone may begin an update while packets and jobs of the one before are still on
their way: `overlap` remembers that it did.

### Calendar, Alarm

The operations are split where the interrupts are on again: after the table is
computed (`arm`), after the register is written, and between the two writes to
the store. The clock may tick in each gap, and the power may go.

| code | model |
|---|---|
| `rtc_update_time_api`, `alarm_add`, `alarm_delete` | `SetTime`, `AlarmAdd`, `AlarmDelete`, then |
| `__alarm_get_the_earliest`, `alarm_vm_write_info_by_index`, `alarm_vm_write_mask` | `Arm`, `WriteRecord`, `WriteMask` |
| `alarm_init`, `alarm_vm_read_info`, `alarm_vm_reset` | `Boot`; `Restart` loses RAM |
| `set_virtual_rtc_tick`, `alm_wakeup_isr` | `Tick` |
| `alarm_sys_event_handler`, `alarm_update_info_after_isr` | `AlarmEvent`, `Arm`, `WriteMask`, `Ring` |
| `alarm_ring_start`, `__alarm_ring_play`, `alarm_stop`, `alarm_event_handler` | `RingStart`, `RingTimer`, `AlarmStop`, `KeyStop` |
| modes as far as an alarm cares | `SwitchTask`, `TaskStart` |

`Calendar` computes dates and days of the week as the code does (two functions,
with the unsigned sum of Zeller's congruence), and, as the reference, by counting
days from 1 January 2000: a recursive function from year to year and a table of the
months.

### ModeSwitch

Everything `app_core` and the modules it calls keep is one record `app` with its
queue, and each function of the code is an operator from records to records, so
that one message, with every call its handler makes and the tail of the loop it
is taken in, is one action (`TakeMsg`). `at` is the mode whose function runs and
`curr` the mode that `app_curr_task` names: they differ between
`app_task_exitting` and the end of the Bluetooth stack.

| code | model |
|---|---|
| `app_task_switch_to`, `..._next`, `bt_app_switch_exit_check` | `SwitchTo`, `Following`, `Stays`, `Refused` |
| `sys_enter_soft_poweroff`, `power_off_deal`, `idle_key_poweron_deal` | `SoftPowerOff`, `PowerKey`, `PowerOn` |
| `bt_task_start`, ends of the modes' tones | `StackStarted`, `ToneDone` |
| `bt_no_background_exit_check`, `esco_check_state` | `ExitChecked`, `PhoneChecked` |
| `bt_connction_status_event_handler`, `app_default_event_deal` | `BtEvent`, `Dispatched` |
| `app_task_exitting`, `bt_task_close`, `bt_nobackground_exit` | `Exitting`, `BtClosed` |
| entries and tails of the mode functions | `EnterBt` ... `EnterIdle`; `BtTail`, `FmClosed`, `LoopTail` |
| any other message | `OtherMsg` (only the tail) |
| timers, tones, stack, keys, alarms, battery, phone | `Tick`, `ToneEnds`, `StackUp`, `Press`, `AlarmDue`, `BatteryLow`, `Call*`, `Link*`, `AudioEnds` |

A callback runs inside `app_task_get_msg`, which for some of them returns to the
loop and for some goes on to wait; the model takes either (`back`).

## 3. The runs

Run one with `tlc -workers 2 -config X.cfg M` in this directory. "States" are
distinct states.

| run | question | properties | states |
|---|---|---|---|
| `norflash_cached` | healthy chip, aligned partitions, every sequence of operations and power cuts | `TypeOK`, `CleanIsDurable`, `ReadsCoherentOutsideLine`, `DiskRefined`, `QuietLineIsSynced` | 107 k |
| `norflash_faults` | waits that time out, fail at the last poll, or outlive the wait | `DirtyIsTimed`, `OnlyTheLineChanges` | 755 k |
| `norflash_spanning_read` | violation: `ReadsCoherent` | see 5 | |
| `recorder_media` | two recordings, pauses, storage that fails anywhere | `TypeOK`, `NothingLost`, `AnsweredStopIsComplete`, `NobodyUsesWhatIsGone`, `KilledAtRest`, `CloseReturns`, `FrameIsTaken` | 142 k |
| `recfs_ring` | four recordings on a ring of three sectors, given up, deleted, not found, cut off anywhere | `TypeOK`, `FlashIsSound`, `SearchEnds`, `RamAgrees`, `MountFindsTheNewest`, `OldestGoFirst` | 757 k |
| `dev_list` | one task that changes the list, others that look up and mark | `TypeOK`, `ListIsSound`, `AnswersAgree` | 35 k |
| `music_slots` | two slots, every medium, every key, memory failures | `TypeOK`, `UsesWhatIsMounted`, `BreakIsConsumed`, `ComesToRest` | 212 k |
| `ota_pair` | two updates, the second begun at any time, repeats, spoilt writes, one fault anywhere, answers in time | `TypeOK`, `MasterBurnsLast`, `BurnsWhole`, `InStep`, `FreshIsTaken`, `SlaveLeaves` | 683 k |
| `alarm_day` | two alarms over the end of a year, restarts, a task that is prompt | `TypeOK`, `StoreAgrees`, `DueAlarmsRing`, `RingEnds` | 845 k |
| `alarm_late` | violation: `ArmedIsNext`, with a task that may be late | see 5 | |
| `modes_switch` | keys, alarms, calls, links and a low battery in any order | `TypeOK`, `ModesAreSound`, `SwitchEnds` | 459 k |
| `modes_low` | violation: `LowBatteryEndsInIdle` | see 5 | |

Several properties are conjunctions of named parts, so that a counterexample
shows which part broke: `UsesWhatIsMounted` (what is decoded, and what is
scanned), `NobodyUsesWhatIsGone` (a header update without an encoder, a task in a
freed recording, an index of a deleted file), `AnswersAgree` (the device used last
is the active one, a pair is mounted together), `FlashIsSound`, `ListIsSound`,
`ModesAreSound`.

### Bounds, and why they are enough

*NorFlash.* Two or three sectors of two blocks: a request of `MaxLen = 3` blocks
begins in the middle of a sector and ends in the next, fills a sector exactly,
stops short of its end, or covers more than one. Three sectors give two cached
ones (evict against load) and one raw. One bit per block tells erased, programmed
and old contents apart. `MaxPolls = 2` (80000 in the code) with `ChipPolls` in
1..3 gives a wait that ends early, one that ends at the last poll and one that
runs out; `TimeoutMod = 16` (2^32) is larger than any count of polls, which is
all that its wrap below 0 depends on. The theorems hold for all of these.

*Recorder.* A frame of 2 units (512 bytes), a buffer of 3: the buffer can be
empty, below a frame, a frame, a frame and a rest, full, and cannot hold two
frames. `PcmLen = 1` makes PCM get lost. `MaxPcm = 4` frames per recording fill
the buffer and refill it after a frame is taken. `CutSize = LimitSize =
HeadLen = 1` puts a file on each side of each comparison. `StopTicks = 2`
(100 in the code) is the least number that distinguishes "once more" from "now".
`Sessions = 2` lets flags, semaphore and index of one recording reach the next.

*NorRecFs.* Sectors of three bytes, a header of two, a format's header and writes
of one, cuts of nothing and of one: a recording ends in its first sector, exactly at a
sector's end, inside the next, and wraps over the end of the partition, and the seek
before its close ends inside the room, is refused, and overshoots it. Three sectors
and `MaxIndex = 4` recordings fill the ring and go round it. Sectors are numbered
from 1, as the partition does not begin at address 0 on the board, which is what
makes sector 0 a wrong one. The constraint `OneStray` stops the run behind the
recording that went astray, of which nothing is claimed; the run does end one, spill
from one and update the header of one. Recordings that are not found are not bounded.

*DevManager.* A device with a recording folder, its folder, and a device without
one; three addresses, so that memory can run out and a freed address is reused
while a pointer to it is kept. `MaxStamp = 3` bounds the number of insertions and
activations: three are enough for a list in any order, and for a place that is
given away and given again. Addresses are symmetric.

*MusicPlayer.* `Inputs = 3` events from outside (cards, keys, ends of files) in
any order with the messages the code posts itself, which are not bounded: an
interrupted scan, the event that interrupts it and one behind it. `Files = 1`
makes one error as many as there are files. `Handles = 16` (65536) never wraps
here; the theorems are for any number of slots, files, events and handles.
Symmetry is not used: the list is ordered.

*TwsOta.* An image of two packets has a first and a last one, with the wait
between; `SnMod = 8` (256) is more than the numbers that are under way at once, so
that a wrapped number meets no old one, and small enough to wrap. Two updates let
what one leaves behind reach the next, and the second may begin in the middle of the
first; one fault (a send that is lost, a link, a
speaker) at any point.

*Alarm.* Days of two minutes of two seconds: the only things a day has to tell
apart are "earlier than now", "now" and "later", and the seconds after a minute's
begin. The days are Saturday 2022-12-31 to Monday 2023-01-02 (ends of a day, week,
month and year) and the day the clock starts with without a time. An alarm rings
once or on Mondays and Saturdays. The arithmetic of dates is checked over the whole
range at once by the assumption `CalendarIsRight`: every day from March 2019 to
2050 against a count of days. `MaxOps = 2` operations of the user and restarts, and
`RingMax = 2` rings.

*ModeSwitch.* `Inputs = 4` keys, alarms, calls and links; the battery, the ends of
calls and links, tones, timers and the stack come besides. Two switches, one
during the other, need two of them, with a call or a link and one behind it. The
violation needs two.

Runs of bounded histories end (`Inputs`, `Sessions`, `MaxIndex`, `MaxStarts`,
`Days`): those switch deadlock checking off. The NOR driver and the device list
never stop, and their runs check that.

### Fairness

*NorFlash*: the operation in progress runs on (it holds the mutex and waits for
nobody), a timeout expires, its callback is called. No assumption on writers:
`QuietLineIsSynced` says that the line gets clean again and again *or* writes
keep coming, because each write starts the 60 ms anew.

*Recorder*: every ready task is scheduled (weak fairness of `enc_write`, the
closing owner, the end of an input call, and the reset-and-post pair). Two are
strong. `CloseEncoder` waits until the encoder is between two callbacks, which
the closed library's close does. `Pend` needs a semaphore that
`enc_write_file_resume` resets before each post: the encoder retries a full
buffer again and again, and could in an interleaving take away each post before
`enc_write` runs. It does not, because `audio_enc` (priority 3) sleeps between two
attempts and `enc_write` (priority 1) then runs, made ready by the post. Nothing
is assumed of the user, the PCM source or the encoder's speed.

*MusicPlayer*: `app_core` handles messages, a scan ends, a tone ends, a decoder
that waited starts. Not assumed: that files end, or that anything comes from
outside.

*TwsOta*: the master's waits and callbacks go on, the slave takes its packets and
does its jobs, its timer fires once nothing comes, and the event of a lost link is
handled. The phone owes nothing: it may fall silent anywhere.

*Alarm*: the timeouts of a ring come (`sys_timeout_add`). A timeout that finds the
tone still playing only asks again, so fairness is of those that find it ended:
tones are finite.

*ModeSwitch*: messages are taken, other messages arrive (a mode's loop gets one
from a timer of the system at least), tones end, the stack comes up, calls end and
links close, decoders end with their data, timers fire. Keys, alarms and the
battery owe nothing.

## 4. The proofs

`tlapm X.tla` on the eight `*Proofs` modules checks everything; the theorems are
listed in `PROJECT.json`.

**NorFlash.** `Structure` is inductive without any assumption on the chip: it
ties the phase of an operation (`pc`, `why`), the open count, the buffer and the
request together. From it come `TypeCorrect` and the fact that requests stay in
their partition, on which everything else rests. `DirtyLineIsTimed` (as long as no
callback has failed, a dirty line has a timer that is running or about to be called) and
`OnlyTheLineChangesAlways` (a cached block changes on the chip only while its
sector is the line, wherever the power goes) are also for any chip. With `Aligned`
partitions and a `Healthy` chip (every command ends before the last poll)
`Coherent` is inductive relative to `Structure`: a clean line equals the chip, a
dirty or half-written one belongs to a cached partition, and between erase and
program the sector is blank. `CleanIsDurable` alone is not inductive: it says
nothing while an operation runs, and needs `Coherent` to be restored at its end.
`DurableWhenClean` and `ReadsReturnTheView` follow from it, and
`ImplementsFlatDisk` is the refinement: `Fill` and `ProgramRaw` are stores, `Write`
accepts, `EraseIoctl` erases, `PowerLoss` is the power cut and changes `View` in
the unsafe sectors only, and every other step leaves `View` as it is (`HiddenSteps`)
and makes nothing unsafe that no request reached. The assumptions are those of the board: its
partitions (`board_ac696x_demo.c:614-644`) are aligned to 4 KB; FAT and recorder
partition are apart, and the third, which covers both, is enabled without them.
80000 polls take far longer than an erase.

**Recorder.** The inductive invariant is `TypeOK /\ Sound`, with `Sound` made of
`Phases` (where each task may be for each position of the owner), `NothingLost`
and `Answers` (what has been written when `enc_write` has answered). `Answers` is
needed because the property is about the state in which the stop ends, and the
reason for it is the state in which the writer found the buffer empty after
`status` was cleared. All safety properties follow; `KilledAtRest` is an action
property and follows from `Phases`. They hold for all sizes and any number of
recordings and of failures, up to an overrun of the frame buffer (`writer = "wild"`);
when the buffer holds no more than a frame, `BufLen = FrameLen`, there is none. The types
hold always: a frame is never longer than its buffer.

**NorRecFs.** `TypeCorrect` is about every state, astray or not. The rest needs
`Ring`, which is `IInv /\ RInv` until a recording goes astray (`AstrayStays`). `IInv`
says of one recording being written what is erased in front of it and programmed
behind, up to the seek that may leave its last bytes blank. `RInv` is about the ring:
recordings do not overlap, and their numbers rise from the place behind the newest all
the way round to it. So a recording that is written, which pushes the end
of its room in front of it sector by sector, meets the header of the next old one
before anything else of it, and what remains is whole. In RAM there is either the
newest, or, after a recording that was not found, nothing, and then that recording is
not on the chip (`NewestAt`). `FlashSound`, `RamIsRight`, `MountIsRight` and the refinement
`ShelfImplemented` follow, for every partition and any number of recordings, without
further assumptions; a step that leads a recording astray is the last they speak of.
`SearchComesToEnd` is about the walk of a search from header to
header. One step of it goes on by at least a sector or back to the first one
(`StepGoesOn`), and never over a sector that no recording reaches into; so in one
round it comes to the first sector, and in the next to the one it began in. From
sector 0, in front of the partition, it enters the partition and never returns
(`WalkFromFront`); the theorem is the equivalence.
That the recursive function `Walk` exists and what its steps are is proved
from the longest part of it that does, by a least counterexample.

**DevList, DevManager.** `Good` (no logo, no address twice; valid implies mounted)
is not inductive alone, as an insertion is safe only because the list was searched
in an earlier hold of the mutex. `Looked` says that this search still holds when
the insertion comes; it is stable because only `app_core` changes the list. One
lemma of `DevListProofs` per list operation says that it keeps `Good`, and
`LookupsKnown` that every lookup answers NULL or a mounted device.
`ListIsSoundAlways` and `TypeCorrect` follow for any logos, any heap and any
interleaving. `AnswersAlwaysAgree` is about steps. That the device used last stays
the active one needs that no two stamps are equal and all are below the counter
(`Stamps`), and that every hold leaves or adds entries but changes none in another
way (`From`). That a pair is mounted together needs, of a call that is half way, what
it has made of its own pair and that it left the others alone (`PairsOK`); and that
no two devices have the same folder (`RecAssumption`), whose name is the device's
with a suffix.

**MusicPlayer.** The invariant is in three parts, each relative to the one
before: `Core` (the list is sound; a player's device is in it or has no decoder),
`Around` (scan, mode, tone and queue fit the player) and `Settled` (what each
phase of a message leaves). Each message ends in `ErrDeal` or begins a scan
(`GoOn`); `ErrDeal` deletes, unmounts and posts. `UsesWhatIsMountedAlways`,
`BreakIsConsumedAlways` and `TypeCorrect` follow. `WithoutKeys` filters the queue
by a recursive function; that it keeps the other messages and no more is proved by
a least counterexample, the provers having no induction.

**TwsOta.** With `Prompt`, and until an update begins in the middle of another
(`overlap`), one thing at a time happens: `PInv` bounds what may be in the queues, the
jobs of both sides and the semaphore together (`OneAtATime`), and ties to each position
of the master what the slave has done (`WaitsOK`, `VerifyOK`, `VerifiedOK`, `InfoOK`,
`BurnOK`). `MasterIsLast` and the slave's half of `WholeIsBurnt` follow for images of
any length and any number of updates one after the other, lost sends, links and
restarts. The master's half of `WholeIsBurnt` needs
neither (`OwnWhole`): it verifies its own bank whatever answers it gets. Types are
proved without `Prompt`. That `overlap` is needed is a fact of the code: see 5.

`SlaveInStep` adds the banks (`SInv`): the bank of the master has the packets it
passed on (`OwnBankOK`), a packet on its way is the one the bank of the slave waits
for (`BankOK`), an answer to a start finds that bank empty (`StartOK`), and the two
lengths differ by one exactly while a packet is under way (`StepOK`).
`FreshPacketIsTaken` is about the numbers: how far the last number a side took is
behind the last its sibling sent (`Gap`). Each fault can cost a number on each side,
and a message under way is one more (`Numbered`), so that a number that is equal to
the last one taken is that one, and no later one that has wrapped, as long as
`SnMod > 2 * MaxFaults + 2`: with the code's 256 numbers, up to 126 faults. Before
it burns a side has caught up again (`CaughtUp`). A restart begins the numbers anew
and is excluded by the property itself.

**Alarm.** `StoreAgreesAlways` needs to know of a cut-off operation which alarm it
was about and which of the two writes it had made (`StoreInv`). `EarliestArmed`
says that between operations the register holds the earliest of the alarms that
are on; it does not say that this time is to come, which is false (see 5).
`RingIsTimed` is the safety half of `RingEnds`: while an alarm rings, a timeout is
pending. `MidnightIsNextDay` is that the clock and the alarms agree on the next day
until 2099.

`DueAlarmsDoRing` is the theorem about what a user expects. It assumes `Prompt`, and
times in the range in which the code's calendar is right (`ServedTimes`: from 3
March 2019; the clock runs through days before 2099). Its invariant `DueInv` says of
each alarm that is on that its date is the first day it is for, from now on (`Comes`),
or that its minute is now and its event waits. An operation brings this about because
`RealDate` finds that day (`FirstDayIsFound`), for every set of weekdays; a tick keeps
it, because at the end of a minute the alarms whose time has come are those that are
due (`MinuteEnds`), they are before all others (`NowIsEarliest`), and the register has
the earliest (`ArmedIsEarliest`). Under it lies the arithmetic: `WeekdayIsRight`
(Zeller's congruence against counted days, month by month, the years by a parameter),
`FewDaysAreCounted` and `DaysUntil` (the days the code counts on are each the day after
the one before, with none between). That the count of the reference is
365 days a year and one for each leap year is proved by a least counterexample.

**ModeSwitch.** `SwitchInv` holds after every message, for any number of keys, alarms,
calls and links. `StackFlags` ties the flags of `bt.c` to the stack, `Places` the mode
whose function runs to the one `app_curr_task` names, and `Leaving` what may still be
up while a mode is left. None of them is inductive without `Waiting`, which is about the
queue: it holds an `initOk` once at most, and only while the stack is up and nobody
has taken note of it; keys only while the mode takes them; the end of FM's tone never
in Bluetooth or idle, and in the clock's mode only before the message that leaves it.
One lemma per handler says that it keeps `GoodApp`; the tails of the
loops and the entries of the modes follow (`LoopTailGood`, `EnteredGood`). What
taking, posting and dropping messages do to order and number is proved once of
queues (`KeptIsPart`, `TailQueue`, `PostedQueue`). `SwitchType` and `ModesStaySound` are
consequences. Names carry `Switch` where `Alarm`, which the module also extends, has
the same.

**Only model-checked.** Liveness (`QuietLineIsSynced`, `CloseReturns`,
`FrameIsTaken`, `ComesToRest`, `SlaveLeaves`, `RingEnds`, `SwitchEnds`): the prover
has no fairness. Every invariant and action property of the passing runs is
also a theorem, under the assumptions named above and with the exceptions that the
properties themselves state (`astray`, `overlap`, `spent`, `"wild"`, each of them a
defect of section 5). The violations need no proof.

## 5. Disagreements between the code and its comments

Three are shown by a run each (`findings` of `PROJECT.json`):

1. `norflash.c:366`: a read that starts below a dirty line and runs into it
   returns the chip's old blocks (`norflash_spanning_read`).
2. `alarm_api.c:697`: the register is written after the time it was computed with,
   and compared for equality only; a second that passes in between, or an event
   handled after the minute of another alarm, silences all alarms (`alarm_late`).
3. `bt_switch_fun.c:688`: a battery that runs low during a call never switches the
   speaker off (`modes_low`).

Others were met while modelling. The models have the code's behaviour, and no run
is spent on them.

Storage:

- `norflash.c:195`: `while (timeout--)` then `timeout == 0`: a chip that never gets
  ready is reported as success.
- `norflash.c:468`: an erase that fails in the timer callback leaves the handle of a
  spent timer; later writes take it for a running one, and their dirty line waits
  for an eviction or the last close. In
  `norflash_faults` this happens: `DirtyIsTimed` excepts it by `spent`.
- A raw write or ioctl erase into the sector of a dirty line is undone by its
  write-back if partitions share a sector (`norflash.c:492`), as they would if
  the board's FAT and NOR_FS partitions were enabled together. Hence `Aligned`.
- `nor_rec_fs.c:200`: a relative seek adds the position twice (`SeekCur`).
- `nor_interface.c:210`: closing a recording that was not found leaves sector 0 as
  the place of the newest and 0 as its number. The next search for a recording that is
  not there, from sector 0, never comes back to where it began
  (`nor_rec_fs.c:613-619`; `SearchEnds` has it as an equivalence). The next recording
  begins in front of the partition as number 1; it has no room, so that the room less
  the position falls below 0 in a u16 (`nor_rec_fs.c:298`) and the first write programs
  nearly 64 kB from behind a buffer of 512 (`Spill`).
- `encode_write_file.c:197-227`: the recorder closes by a seek to its length, which
  counts the file's header already, and the seek adds it again. The recording has up to
  a header's length of blank bytes at its end; when the cut is shorter than the header
  (`audio_recorder_mix.c:464` cuts nothing) and the recording ends near the end of its
  room, its length reaches into a sector that was never taken (`astray`). When the seek
  is refused after the format's header has been rewritten, the recording is closed behind
  that header: everything else of it is lost (`End`).
- `updata_wav_head_info` goes back to where the position was with the same double
  count, so that each update leaves a gap, and it programs the header over itself
  without an erasure (`UpdateHead`, `astray`).
Recording and devices:

- `audio_enc_file.c:308-310`: the rest of the buffer, which may be longer than
  `out_file_frame`, is read into it at the end of a recording. What lies behind it in
  the handle is overwritten (`RestOverruns`).
- `encode_write_file.c:162`: the stop can be answered for a buffer found empty
  before the encoder's last output, which is then freed unwritten. What was output
  before the stop is never lost (`AnsweredStopIsComplete`).
- A file of exactly `limit_size` is deleted, `encode_write.h:41` says only
  shorter ones are (`Kept`).
- `dev_manager_find_prev` gives the device after the current one in the list and
  `find_next` the one before, the comment at `dev_manager.c:310` says the opposite.
- `dev_manager_list_check_mount` also remounts devices that are mounted
  (`dev_manager.c:875`).
- `dev_manager_check` accepts a kept pointer whose memory has been given to
  another device (`dev_manager.c:175`, `:188`), so `MarkHeld` may mark the wrong one.

Music mode:

- `music.c:345`: the event that interrupts a scan is sent again behind later ones,
  and the list ends up with a card that is gone or without one that is there.
- `music_player.c:156`: `magic_cnt` does not grow when the player changes the device
  without creating a decoder; a late read error unmounts the wrong one. It is u16
  but is compared as `magic_cnt - 1`: after the wrap to 0 no message matches
  (`OfThisDecoder` has the comparison as it is).
- The error of an interrupted scan does nothing, because the event is sent
  again and will start the next device (`music.c:503`). When the resent IN adds
  no device the player stays silent though another device has files.
- A message that arrives between the stop for a new device and its START finds
  no scan handle, and the device loses its validity though it has files.
- The quit message decided when there was no device is obeyed after one was
  added (`music.c:525`).

Update of a pair:

- `update_tws_new.c:251`: the semaphore is not reset before the wait for the slave's
  boot info, so a late answer of an earlier step, whose wait had timed out, is taken
  for it and the master changes alone; and an answer sent by a slave that cannot
  verify is one byte short, its result is what lies behind it. `ota_pair` with
  `Prompt = FALSE`, `NumPackets = 1` and `SnMod = 256` shows `MasterBurnsLast`
  violated.
- The same semaphore is shared by an update and the one before. When the phone begins
  anew while a packet is on its way to the slave, with every answer in time, the late
  answer is taken for the one to the start, and each later one for the next
  (`update_tws_new.c:219-228`, `:251`): the master burns before the slave has, and the
  slave may burn a bank it has not filled. Without `~overlap` TLC finds
  `MasterBurnsLast` (32 steps), `InStep` (16) and the slave's half of `BurnsWhole` (31)
  violated in `ota_pair`.
- `tws_ota_timeout_reset` may use the handle of a timeout that has fired.

Alarms:

- `rtc_calculate_week_val` is u32: its sum falls below 0 on 1033 days between
  2000-03-01 and 2019-03-02, and the day of the week is wrong (`WeekVal` has it).
- The menu's change of the month leaves the day, so that 31 February can be set;
  `Date` has the dates as records and the runs have valid ones.
- `virtual_rtc.c` goes from 2099 to 2000, `alarm_api.c` to 2100.
- A timeout left over from a ring that a key has stopped may shorten the ring of the
  next alarm; `RingEnds` only claims that a ring ends.
- A key pressed before the event of an alarm is handled takes its flag down; the
  alarm then rings and no key stops it. When Bluetooth mode refuses the switch the
  flag stays up and the next key is swallowed (`alarm_user.c:131`).
- `E_ALARM_MODE_ONCE` rings every day: what switched it off is commented out.

Modes:

- `goto_poweroff_flag` stays up when a power off is refused in a call: the events of
  Bluetooth are dropped and the power key is dead until Bluetooth mode is entered
  again; the branch for a forced power off is never reached in a call. An alarm in
  idle goes to the clock's mode with the flag still up.
- A power off that waits for the start of Bluetooth is replaced by a mode key.
- An end of phone audio that arrives while the flag is up is dropped; the
  decoder's own end comes to its help (`AudioEnds`).
- `idle.c:512`, `:519`, `:532` keep the last mode under `CFG_SYS_VOL`, which
  `user_cfg.c:354` reads as the default volume; the previous mode may be one that
  was asked for and never ran.
- RTC mode mutes the amplifier at the end of its tone (`rtc.c:708`).
- Bluetooth and FM mode start their hardware at the end of their tone, and the
  result of playing it is ignored: a tone that cannot be opened leaves the mode
  without (in `fm.c` the fallback is commented out).

## 6. What the models assume and leave out

- Writing one flag is indivisible. The recorder's flags are bit-fields of one
  word, so a store is a read-modify-write; whether a time slice can end inside
  one depends on the compiler.
- Testing `status` and setting `input_busy` are one step: the threads that hand
  over PCM have a higher priority than `app_core` (`task_table.c`).
- `os_mutex_pend` may be taken again by its holder, as the device manager does.
- The counter of stamps is u32 and does not wrap.
- A power cut tears the sector of the command under way; when a command has
  outlived its wait, any sector. In `NorRecFs` a chip operation is indivisible, but
  power may go between any two.
- Wear, bit errors and a chip that is missing at open are not in `NorFlash`.
- `NorRecFs`: recorded data never looks like a header (two checksums); the number of
  recordings stays below 2^16; the partition does not begin behind its end.
  `clear_norfs_allfile` has no caller, and power does not go in the middle of it in the
  model. The stop of the writer shortly before the capacity
  (`encode_write_file.c:136`), names and `nor_get_data_info` are left out, as is what a
  stray recording does to the flash afterwards: nothing is said after a spill.
- The recorder's variants for raw NOR and flash-inside storage, and the mixing of
  sources, are not in `Recorder`; the board does not build them.
- The queue of `app_core` has no limit; the library's limit and what it drops are
  not known. In `MusicPlayer`, playing by number, cluster or path, the folder keys,
  deleting the playing file, the recording folder, device tones, lyrics, the
  display and the ignored events at power-on are left out. With `RamFails` a file
  may stay open over an unmount, as in the code: nothing decodes it.
- `TwsOta`: the phone begins no update while the master waits in
  `tws_ota_exit_verify`, its library not asking for a reboot wait of its own;
  ending the update task cancels its jobs; a verification can only fail to begin
  without an update task; `OTA_UPDATE_ERR` has no receiver, so it is not sent; the
  roles do not change (role switch is disabled for the update). The updates of a
  second chip and the active update are left out.
- `Alarm`: inputs are valid dates. The dates of alarms that are off or stored are
  left out, as they are computed anew before use. Operations follow one another on
  `app_core`. Writes to the store succeed. The hardware clock, the wake-up from
  power off, names, ring tones and the menus, which only choose inputs, are left
  out. `alarm_day` has a task that is prompt; what happens otherwise is
  `alarm_late`.
- `ModeSwitch` is the demo board: Bluetooth, FM, clock and idle, without a pair,
  charger, phone app or background Bluetooth (`TWFG_APP_POWERON_IGNORE_DEV` and the
  first 4 s after boot are over). Tones always play. Long presses are counted by a
  choice (`last`); the timers of `esco_check_state` are one; a deleted timer calls
  nobody any more, also when its callback is queued. Voice assistants, volume and
  the keys of the player are left out.
- Everything listed as `not_modelled` in `PROJECT.json`, each with its reason:
  closed stacks, signal processing, presentation, register access, and the parts
  planned below.

## 7. Plan

Done: `FlatDisk` < `NorFlash` (the data everything is stored on), `Recorder` (the
most concurrent code), `RecShelf` < `NorRecFs`, `DevList` < `DevManager`,
`MusicPlayer`, `TwsOta`, `Calendar` < `Alarm` and `ModeSwitch`, with their theorems.
All their safety properties are proved. What is left, in this order:

| what | models | properties and theorems |
|---|---|---|
| composition | `Recorder` over `NorRecFs` over raw writes of `NorFlash` | that a recording closed after an answered stop is found, whole, by the next mount |
| `KeyScan` | the debouncing and the clicks of `key_driver.c` | sequences of presses to events: every press answered once, against a reference of clicks |
| `UartRing` | the receiving ring of the UART driver, with its interrupt as a process | no byte lost or taken twice below the ring's size; a wait ends when there is data |
| larger builds | `ModeSwitch` with music mode and a pair; the active update of `TwsOta` | the same |
