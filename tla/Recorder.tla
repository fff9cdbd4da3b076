----------------------------- MODULE Recorder -----------------------------
(***************************************************************************)
(* Recording to a file.  PCM is handed to pcm2file_enc_write_pcm, the      *)
(* encoder task turns it into data in out_file_cbuf, and the task          *)
(* enc_write moves that data to the file, a frame of FrameLen at a time    *)
(* (cpu/br25/audio_enc/audio_enc_file.c and                                *)
(* apps/common/audio/encode/encode_write_file.c).  The owner, app_core,    *)
(* opens, starts, pauses and closes a recording.  The tasks share flags    *)
(* without a lock; only the periodic header update and the clearing of     *)
(* status are under a mutex.                                               *)
(*                                                                         *)
(* Data is counted in units, one unit being what the encoder makes of one  *)
(* frame of PCM.  A write of one flag bit is taken to be indivisible, and  *)
(* so is the test of status together with the setting of input_busy: the   *)
(* threads that hand over PCM have a higher priority than the owner        *)
(* (task_table.c), which cannot run between the two.  A recording has no   *)
(* PCM before it is started, for recorder_encode_start opens the input     *)
(* after pcm2file_enc_start.                                               *)
(*                                                                         *)
(* The end of a recording may write past out_file_frame (RestOverruns).    *)
(* What is behind it is the rest of the handle, the buffer's own pointers  *)
(* included: enc_write is "wild" then, it does nothing more in the model,  *)
(* and every property but the types is about the time before.              *)
(***************************************************************************)
EXTENDS Integers, FiniteSets

CONSTANTS FrameLen,    \* sizeof(out_file_frame)
          BufLen,      \* size of out_file_cbuf
          PcmLen,      \* size of pcm_cbuf
          CutSize,     \* cut_size
          LimitSize,   \* limit_size
          HeadLen,     \* file_head_len; 0 for MP3, which has no set_head
          StopTicks,   \* delay_ms / 10 of enc_write_file_stop
          MediaFails,  \* BOOLEAN: fopen, task_create and fwrite may fail
          Sessions,    \* bound: recordings
          MaxPcm       \* bound: frames of PCM handed over per recording

ASSUME SizeAssumption == /\ FrameLen \in Nat \ {0}
                         /\ BufLen \in Nat /\ BufLen >= FrameLen
                         /\ PcmLen \in Nat \ {0}
                         /\ CutSize \in Nat /\ LimitSize \in Nat /\ HeadLen \in Nat
                         /\ StopTicks \in Nat \ {0}
                         /\ MediaFails \in BOOLEAN
                         /\ Sessions \in Nat /\ MaxPcm \in Nat

NoFile == 0   \* enc_file_index = (u32) - 1

VARIABLES
  \* the owner, and the file system
  owner,      \* what app_core does: see OwnerStates
  session,    \* number of the current or last file
  files,      \* the recordings that exist
  enc_file_index,
  ticks,      \* os_time_dly calls of enc_write_file_stop
  \* struct pcm2file_enc_hdl
  status,     \* 0 stopped, 1 recording, 2 paused
  enc_err, input_busy,
  mutex,      \* "free", or "writer" while enc_write updates the header
  pcm,        \* data in pcm_cbuf
  buf,        \* data in out_file_cbuf
  \* the encoder
  enc,        \* "closed", "idle", or a step of pcm2file_wfile_resume
  encHas,     \* it holds a unit it has not output yet
  encStop,    \* audio_encoder_stop was called
  \* struct enc_write_file and the task enc_write
  init_ok, wait_idle, start, wait_stop, write_err,
  sem,        \* sem_task_run
  pend,       \* pend_dly: "forever" (-1), "skip" (0) or "timed" (> 0)
  writer,     \* what enc_write does: see WriterStates
  frame,      \* data it took from the buffer and has not written
  file,       \* length of the file
  \* history
  given,      \* frames of PCM handed over in this recording
  emitted,    \* units put in out_file_cbuf in this recording
  promised,   \* emitted when status became 0
  acked       \* enc_write_file_stop ended because wait_stop was cleared

hdlVars  == <<status, enc_err, input_busy, mutex, pcm, buf>>
encVars  == <<enc, encHas, encStop>>
flagVars == <<init_ok, wait_idle, start, wait_stop, write_err>>
taskVars == <<sem, pend, writer, frame, file>>
sessVars == <<session, files, enc_file_index>>
histVars == <<given, emitted, promised, acked>>
vars == <<owner, ticks, sessVars, hdlVars, encVars, flagVars, taskVars, histVars>>

OwnerStates  == {"idle", "open", "running", "busy", "encclose", "stop",
                 "stopwait", "handshake", "handwait", "finish"}
WriterStates == {"none", "pend", "check", "get", "status", "rest", "empty",
                 "write", "error", "put", "head", "parking", "parked", "wild"}

-----------------------------------------------------------------------------
(* The owner.                                                               *)

NewFile == session' = session + 1 /\ enc_file_index' = session + 1

\* pcm2file_enc_open.  When fopen fails it leaves everything as it was.  When
\* the task is not created, enc_write_file_close deletes the empty file;
TaskFails ==
    /\ owner = "idle" /\ session < Sessions /\ MediaFails
    /\ session' = session + 1
    /\ enc_file_index' = NoFile
    /\ UNCHANGED <<owner, ticks, files, hdlVars, encVars, flagVars, taskVars, histVars>>

\* else all goes well, and enc_write waits for its first post.
Open ==
    /\ owner = "idle" /\ session < Sessions
    /\ NewFile
    /\ files' = files \cup {session + 1}
    /\ owner' = "open" /\ ticks' = 0
    /\ status' = 0 /\ enc_err' = FALSE /\ input_busy' = FALSE /\ mutex' = "free"
    /\ pcm' = 0 /\ buf' = 0
    /\ enc' = "idle" /\ encHas' = FALSE /\ encStop' = FALSE
    /\ init_ok' = TRUE /\ wait_idle' = FALSE /\ start' = FALSE
    /\ wait_stop' = FALSE /\ write_err' = FALSE
    /\ sem' = 0 /\ pend' = "forever" /\ writer' = "pend" /\ frame' = 0 /\ file' = 0
    /\ given' = 0 /\ emitted' = 0 /\ promised' = 0 /\ acked' = FALSE

\* pcm2file_enc_start
Start ==
    /\ owner = "open"
    /\ status' = 1 /\ start' = TRUE
    /\ owner' = "running"
    /\ UNCHANGED <<ticks, sessVars, enc_err, input_busy, mutex, pcm, buf, encVars,
                   init_ok, wait_idle, wait_stop, write_err, taskVars, histVars>>

\* recorder_encode_pp, enc_change_status
Toggle ==
    /\ owner = "running"
    /\ status' = IF status = 1 THEN 2 ELSE 1
    /\ UNCHANGED <<owner, ticks, sessVars, enc_err, input_busy, mutex, pcm, buf, encVars,
                   flagVars, taskVars, histVars>>

\* pcm2file_enc_close, step by step: clear status under the mutex,
Close ==
    /\ owner = "running" /\ mutex = "free"
    /\ status' = 0 /\ promised' = emitted
    /\ owner' = "busy"
    /\ UNCHANGED <<ticks, sessVars, enc_err, input_busy, mutex, pcm, buf, encVars,
                   flagVars, taskVars, given, emitted, acked>>

\* Mutant: the input is not waited for.
CloseIgnoresInput ==
    /\ owner = "busy"
    /\ owner' = "encclose"
    /\ UNCHANGED <<ticks, sessVars, hdlVars, encVars, flagVars, taskVars, histVars>>

\* wait for the input,
CloseInput ==
    /\ owner = "busy" /\ ~input_busy
    /\ owner' = "encclose"
    /\ UNCHANGED <<ticks, sessVars, hdlVars, encVars, flagVars, taskVars, histVars>>

\* close the encoder, which may drop the unit it holds,
CloseEncoder ==
    /\ owner = "encclose" /\ enc = "idle"
    /\ enc' = "closed" /\ encHas' = FALSE
    /\ owner' = "stop"
    /\ UNCHANGED <<ticks, sessVars, hdlVars, encStop, flagVars, taskVars, histVars>>

\* enc_write_file_stop,
StopBegin ==
    /\ owner = "stop"
    /\ wait_stop' = IF start THEN TRUE ELSE wait_stop
    /\ owner' = IF start THEN "stopwait" ELSE "handshake"
    /\ UNCHANGED <<ticks, sessVars, hdlVars, encVars, init_ok, wait_idle, start,
                   write_err, taskVars, histVars>>

EndOfStop(answer) ==
    /\ acked' = answer /\ start' = FALSE
    /\ owner' = "handshake"

StopAnswered ==
    /\ owner = "stopwait" /\ (~wait_stop \/ write_err)
    /\ EndOfStop(~wait_stop)
    /\ UNCHANGED <<ticks, sessVars, hdlVars, encVars, init_ok, wait_idle, wait_stop,
                   write_err, taskVars, given, emitted, promised>>

StopTick ==
    /\ owner = "stopwait" /\ wait_stop /\ ~write_err
    /\ ticks' = ticks + 1
    /\ IF ticks + 1 < StopTicks THEN UNCHANGED <<owner, start, acked>>
                                ELSE EndOfStop(FALSE)
    /\ UNCHANGED <<sessVars, hdlVars, encVars, init_ok, wait_idle, wait_stop,
                   write_err, taskVars, given, emitted, promised>>

\* Mutant: enc_write is not woken.
HandshakeNoPost ==
    /\ owner = "handshake"
    /\ wait_idle' = TRUE /\ init_ok' = FALSE
    /\ owner' = "handwait"
    /\ UNCHANGED <<ticks, sessVars, hdlVars, encVars, start, wait_stop, write_err,
                   taskVars, histVars>>

\* enc_write_file_close: tell enc_write to stop,
Handshake ==
    /\ owner = "handshake"
    /\ wait_idle' = TRUE /\ init_ok' = FALSE
    /\ sem' = 1                          \* os_sem_set 0, os_sem_post
    /\ owner' = "handwait"
    /\ UNCHANGED <<ticks, sessVars, hdlVars, encVars, start, wait_stop, write_err,
                   pend, writer, frame, file, histVars>>

\* Mutant: enc_write is killed without an answer.
KillAtOnce ==
    /\ owner = "handwait"
    /\ writer' = "none"
    /\ owner' = "finish"
    /\ UNCHANGED <<ticks, sessVars, hdlVars, encVars, flagVars, sem, pend, frame, file,
                   histVars>>

\* wait for its answer and kill it,
Kill ==
    /\ owner = "handwait" /\ ~wait_idle
    /\ writer' = "none"
    /\ owner' = "finish"
    /\ UNCHANGED <<ticks, sessVars, hdlVars, encVars, flagVars, sem, pend, frame, file,
                   histVars>>

\* and cut the tail off the file, or delete it.
Kept == /\ file > CutSize
        /\ file - CutSize > LimitSize
        /\ write_err \/ file - CutSize > HeadLen

Finish ==
    /\ owner = "finish"
    /\ files' = IF Kept THEN files ELSE files \ {session}
    /\ enc_file_index' = IF Kept THEN enc_file_index ELSE NoFile
    /\ owner' = "idle"
    /\ UNCHANGED <<ticks, session, hdlVars, encVars, flagVars, taskVars, histVars>>

-----------------------------------------------------------------------------
(* The thread that hands over PCM: pcm2file_enc_write_pcm.                  *)

InputEnter ==
    /\ owner \notin {"idle", "open"} /\ status # 0 /\ ~enc_err
    /\ ~input_busy /\ given < MaxPcm
    /\ input_busy' = TRUE
    /\ UNCHANGED <<owner, ticks, sessVars, status, enc_err, mutex, pcm, buf, encVars,
                   flagVars, taskVars, histVars>>

\* PCM that does not fit, or comes during a pause, is lost.
InputLeave ==
    /\ input_busy
    /\ pcm' = IF status = 1 /\ pcm < PcmLen THEN pcm + 1 ELSE pcm
    /\ given' = given + 1
    /\ input_busy' = FALSE
    /\ UNCHANGED <<owner, ticks, sessVars, status, enc_err, mutex, buf, encVars,
                   flagVars, taskVars, emitted, promised, acked>>

-----------------------------------------------------------------------------
(* The encoder task: the library calls the handlers of pcm2file_enc_input   *)
(* and pcm2file_enc_handler until it is stopped or closed.                  *)

\* pcm2file_enc_pcm_get
EncGet ==
    /\ enc = "idle" /\ ~encStop /\ ~encHas
    /\ status # 0 /\ ~enc_err /\ pcm > 0
    /\ pcm' = pcm - 1 /\ encHas' = TRUE
    /\ UNCHANGED <<owner, ticks, sessVars, status, enc_err, input_busy, mutex, buf,
                   enc, encStop, flagVars, taskVars, histVars>>

\* enc_write_file_resume posts only for a recording that runs.
Resumed == IF start /\ ~write_err THEN "reset" ELSE "idle"

\* pcm2file_enc_output_handler.  What does not fit is offered again later;
\* enc_write is woken all the same.
EncOutput ==
    /\ enc = "idle" /\ ~encStop /\ encHas
    /\ IF buf < BufLen
       THEN /\ buf' = buf + 1 /\ emitted' = emitted + 1
            /\ encHas' = FALSE
       ELSE UNCHANGED <<buf, emitted, encHas>>
    /\ enc' = Resumed
    /\ UNCHANGED <<owner, ticks, sessVars, status, enc_err, input_busy, mutex, pcm,
                   encStop, flagVars, taskVars, given, promised, acked>>

\* Mutant: the semaphore is not reset before it is posted.
EncNoReset ==
    /\ enc = "reset"
    /\ enc' = "post"
    /\ UNCHANGED <<owner, ticks, sessVars, hdlVars, encHas, encStop, flagVars,
                   sem, pend, writer, frame, file, histVars>>

\* enc_write_file_resume: os_sem_set(0), then
EncReset ==
    /\ enc = "reset"
    /\ sem' = 0 /\ enc' = "post"
    /\ UNCHANGED <<owner, ticks, sessVars, hdlVars, encHas, encStop, flagVars,
                   pend, writer, frame, file, histVars>>

\* Mutant: the post is forgotten.
EncNoPost ==
    /\ enc = "post"
    /\ enc' = "idle"
    /\ UNCHANGED <<owner, ticks, sessVars, hdlVars, encHas, encStop, flagVars,
                   sem, pend, writer, frame, file, histVars>>

\* os_sem_post.
EncPost ==
    /\ enc = "post"
    /\ sem' = sem + 1 /\ enc' = "idle"
    /\ UNCHANGED <<owner, ticks, sessVars, hdlVars, encHas, encStop, flagVars,
                   pend, writer, frame, file, histVars>>

-----------------------------------------------------------------------------
(* enc_write_file_task.                                                     *)

\* os_sem_pend(&sem_task_run, pend_dly), which a positive pend_dly ends.
Pend ==
    /\ writer = "pend"
    /\ pend = "forever" => sem > 0
    /\ sem' = IF pend # "skip" /\ sem > 0 THEN sem - 1 ELSE sem
    /\ writer' = "check"
    /\ UNCHANGED <<owner, ticks, sessVars, hdlVars, encVars, flagVars, pend, frame, file,
                   histVars>>

\* pend_dly++
Bumped == IF pend = "forever" THEN "skip" ELSE "timed"

\* init_ok, then start
Check ==
    /\ writer = "check"
    /\ IF init_ok THEN pend' = Bumped ELSE UNCHANGED pend
    /\ writer' = IF ~init_ok THEN "parking" ELSE IF start THEN "get" ELSE "pend"
    /\ UNCHANGED <<owner, ticks, sessVars, hdlVars, encVars, flagVars, sem, frame, file,
                   histVars>>

\* pcm2file_enc_w_get: a whole frame; cbuf_read takes all or nothing.
GetFrame ==
    /\ writer = "get"
    /\ IF buf >= FrameLen
       THEN buf' = buf - FrameLen /\ frame' = FrameLen /\ writer' = "write"
       ELSE writer' = "status" /\ UNCHANGED <<buf, frame>>
    /\ UNCHANGED <<owner, ticks, sessVars, status, enc_err, input_busy, mutex, pcm,
                   encVars, flagVars, sem, pend, file, histVars>>

\* Mutant: an empty buffer is taken for the end of the recording.
GetStatusGivesUp ==
    /\ writer = "status"
    /\ writer' = IF status = 0 THEN "empty" ELSE IF enc_err THEN "empty" ELSE "get"
    /\ UNCHANGED <<owner, ticks, sessVars, hdlVars, encVars, flagVars, sem, pend,
                   frame, file, histVars>>

\* No whole frame: the rest after a close, nothing after an error, else wait
\* two ticks and look again.
GetStatus ==
    /\ writer = "status"
    /\ writer' = IF status = 0 THEN "rest" ELSE IF enc_err THEN "empty" ELSE "get"
    /\ UNCHANGED <<owner, ticks, sessVars, hdlVars, encVars, flagVars, sem, pend,
                   frame, file, histVars>>

\* Mutant: the rest is at most a frame, and what is over is dropped.
GetRestCut ==
    /\ writer = "rest"
    /\ buf' = 0 /\ frame' = IF buf > FrameLen THEN FrameLen ELSE buf
    /\ writer' = IF buf > 0 THEN "write" ELSE "empty"
    /\ UNCHANGED <<owner, ticks, sessVars, status, enc_err, input_busy, mutex, pcm,
                   encVars, flagVars, sem, pend, file, histVars>>

\* All that is in the buffer now, which may be more than was there a moment
\* ago when it was no whole frame.  What fits into out_file_frame is written;
GetRest ==
    /\ writer = "rest" /\ buf <= FrameLen
    /\ buf' = 0 /\ frame' = buf
    /\ writer' = IF buf > 0 THEN "write" ELSE "empty"
    /\ UNCHANGED <<owner, ticks, sessVars, status, enc_err, input_busy, mutex, pcm,
                   encVars, flagVars, sem, pend, file, histVars>>

\* more than that is read into it all the same, over what is behind it.
RestOverruns ==
    /\ writer = "rest" /\ buf > FrameLen
    /\ writer' = "wild"
    /\ UNCHANGED <<owner, ticks, sessVars, hdlVars, encVars, flagVars, sem, pend, frame,
                   file, histVars>>

\* get returned 0
Empty ==
    /\ writer = "empty"
    /\ wait_stop' = FALSE
    /\ writer' = "pend"
    /\ UNCHANGED <<owner, ticks, sessVars, hdlVars, encVars, init_ok, wait_idle, start,
                   write_err, sem, pend, frame, file, histVars>>

\* fwrite succeeds: the next round does not pend.
WriteOk ==
    /\ writer = "write" /\ ~write_err
    /\ file' = file + frame /\ frame' = 0
    /\ pend' = "skip" /\ writer' = "put"
    /\ UNCHANGED <<owner, ticks, sessVars, hdlVars, encVars, flagVars, sem, histVars>>

\* fwrite writes less than it was given.
WriteFails ==
    /\ writer = "write" /\ ~write_err /\ MediaFails
    /\ \E n \in 0 .. frame - 1 : file' = file + n
    /\ frame' = 0
    /\ writer' = "error"
    /\ UNCHANGED <<owner, ticks, sessVars, hdlVars, encVars, flagVars, sem, pend, histVars>>

\* pcm2file_enc_w_evt, then write_err is set.
WriteError ==
    /\ writer = "error"
    /\ enc_err' = TRUE /\ encStop' = TRUE
    /\ sem' = IF start THEN 1 ELSE sem
    /\ write_err' = TRUE
    /\ writer' = "put"
    /\ UNCHANGED <<owner, ticks, sessVars, status, input_busy, mutex, pcm, buf, enc,
                   encHas, init_ok, wait_idle, start, wait_stop, pend, frame, file,
                   histVars>>

\* After a failed write data is dropped.
WriteDropped ==
    /\ writer = "write" /\ write_err
    /\ frame' = 0
    /\ writer' = "put"
    /\ UNCHANGED <<owner, ticks, sessVars, hdlVars, encVars, flagVars, sem, pend, file,
                   histVars>>

\* pcm2file_enc_w_put: every 5 s of a running recording the header is
\* rewritten, under the mutex, with what the encoder says.
Put ==
    /\ writer = "put" /\ mutex = "free"
    /\ \/ writer' = "pend" /\ UNCHANGED mutex
       \/ status # 0 /\ writer' = "head" /\ mutex' = "writer"
    /\ UNCHANGED <<owner, ticks, sessVars, status, enc_err, input_busy, pcm, buf, encVars,
                   flagVars, sem, pend, frame, file, histVars>>

HeadDone ==
    /\ writer = "head"
    /\ mutex' = "free" /\ writer' = "pend"
    /\ UNCHANGED <<owner, ticks, sessVars, status, enc_err, input_busy, pcm, buf, encVars,
                   flagVars, sem, pend, frame, file, histVars>>

\* The end of the task: answer the owner,
ParkAnswer ==
    /\ writer = "parking"
    /\ wait_idle' = FALSE
    /\ writer' = "parked"
    /\ UNCHANGED <<owner, ticks, sessVars, hdlVars, encVars, init_ok, start, wait_stop,
                   write_err, sem, pend, frame, file, histVars>>

\* clear the other flags, and sleep until it is killed.
ParkClear ==
    /\ writer = "parked"
    /\ start' = FALSE /\ wait_stop' = FALSE
    /\ UNCHANGED <<owner, ticks, sessVars, hdlVars, encVars, init_ok, wait_idle,
                   write_err, taskVars, histVars>>

-----------------------------------------------------------------------------
Init ==
    /\ owner = "idle" /\ ticks = 0
    /\ session = 0 /\ files = {} /\ enc_file_index = NoFile
    /\ status = 0 /\ enc_err = FALSE /\ input_busy = FALSE /\ mutex = "free"
    /\ pcm = 0 /\ buf = 0
    /\ enc = "closed" /\ encHas = FALSE /\ encStop = FALSE
    /\ init_ok = FALSE /\ wait_idle = FALSE /\ start = FALSE
    /\ wait_stop = FALSE /\ write_err = FALSE
    /\ sem = 0 /\ pend = "forever" /\ writer = "none" /\ frame = 0 /\ file = 0
    /\ given = 0 /\ emitted = 0 /\ promised = 0 /\ acked = FALSE

OwnerCloses == \/ CloseInput \/ CloseEncoder \/ StopBegin \/ StopAnswered \/ StopTick
               \/ Handshake \/ Kill \/ Finish
Owner  == TaskFails \/ Open \/ Start \/ Toggle \/ Close \/ OwnerCloses
Input  == InputEnter \/ InputLeave
Wake   == EncReset \/ EncPost
Encode == EncGet \/ EncOutput \/ Wake
Writer == \/ Pend \/ Check \/ GetFrame \/ GetStatus \/ GetRest \/ RestOverruns \/ Empty
          \/ WriteOk \/ WriteFails \/ WriteError \/ WriteDropped
          \/ Put \/ HeadDone \/ ParkAnswer \/ ParkClear

Next == Owner \/ Input \/ Encode \/ Writer
Spec == Init /\ [][Next]_vars

\* The scheduler runs every ready task, a caller of pcm2file_enc_write_pcm
\* returns, and audio_encoder_close ends although the encoder has work.
\* audio_enc sleeps between two attempts at a full buffer, so that enc_write,
\* made ready by a post, runs before the next reset takes the post away.
\* Nothing obliges anyone to record, pause or close, or the encoder to encode.
Fairness == /\ WF_vars(OwnerCloses) /\ SF_vars(CloseEncoder)
            /\ WF_vars(Writer) /\ SF_vars(Pend) /\ WF_vars(Wake) /\ WF_vars(InputLeave)
FairSpec == Spec /\ Fairness

-----------------------------------------------------------------------------
FlagTypes ==
    /\ enc_err \in BOOLEAN /\ input_busy \in BOOLEAN
    /\ encHas \in BOOLEAN /\ encStop \in BOOLEAN
    /\ init_ok \in BOOLEAN /\ wait_idle \in BOOLEAN /\ start \in BOOLEAN
    /\ wait_stop \in BOOLEAN /\ write_err \in BOOLEAN /\ acked \in BOOLEAN

StateTypes ==
    /\ owner \in OwnerStates /\ writer \in WriterStates
    /\ status \in 0 .. 2 /\ mutex \in {"free", "writer"}
    /\ enc \in {"closed", "idle", "reset", "post"}
    /\ sem \in 0 .. 2 /\ pend \in {"forever", "skip", "timed"}
    /\ ticks \in 0 .. StopTicks

DataTypes ==
    /\ session \in 0 .. Sessions /\ files \subseteq 1 .. Sessions
    /\ enc_file_index \in 0 .. Sessions
    /\ pcm \in 0 .. PcmLen /\ buf \in 0 .. BufLen
    /\ frame \in 0 .. FrameLen /\ file \in Nat
    /\ given \in 0 .. MaxPcm
    /\ emitted \in Nat /\ promised \in 0 .. emitted

TypeOK == FlagTypes /\ StateTypes /\ DataTypes

\* Until a write fails or the frame buffer is overrun, what the encoder has
\* output is in the file, in the hands of enc_write or in the buffer, through
\* pauses and through the end of the recording, when enc_write empties the
\* buffer.
NothingLost ==
    writer \notin {"wild", "error"} /\ ~write_err =>
        file + frame + buf = emitted

\* When enc_write_file_stop returns because enc_write answered, which it does
\* only if the frame buffer held, and no write failed, the file has all that was output before the
\* recording was stopped: an answer given while data was left would cut it off.
AnsweredStopIsComplete ==
    owner = "finish" /\ acked /\ ~write_err => file >= promised

\* The encoder answers the header update: pcm2file_enc_close does not close it
\* under enc_write, though the two tasks share no lock but the mutex.
HeaderHasEncoder == writer = "head" => enc # "closed"

\* A recording that pcm2file_enc_close has freed is used by nobody: not by the
\* thread that hands over PCM, not by the encoder, not by enc_write.
NobodyInFreedHandle ==
    owner = "idle" => ~input_busy /\ enc = "closed" /\ writer = "none" /\ mutex = "free"

\* The last recording that last_enc_file_path_get offers for replay exists, or
\* is being made.
IndexNamesFile == enc_file_index \in files \cup {NoFile}

\* What pcm2file_enc_close takes away, the encoder first, the recording then and
\* a file that became too short, nobody uses or names.
NobodyUsesWhatIsGone ==
    writer # "wild" => HeaderHasEncoder /\ NobodyInFreedHandle /\ IndexNamesFile

\* enc_write is killed only when it sleeps: not in a read or a write of the
\* file, and not with the mutex.
KilledAtRest ==
    [][writer # "none" /\ writer' = "none" => writer = "parked"]_vars

\* pcm2file_enc_close returns, whatever enc_write, the encoder, the storage and
\* the PCM input are doing when it is called, unless the frame buffer is overrun.
CloseReturns == owner = "busy" ~> owner = "idle" \/ writer = "wild"

\* A frame of data does not stay in the buffer of a running recording.
FrameIsTaken == buf >= FrameLen ~> buf < FrameLen \/ status = 0

-----------------------------------------------------------------------------
(* What the safety properties rest on.                                      *)

\* Who may be where while the owner is where.
Phases ==
    /\ status # 0 <=> owner = "running"
    /\ init_ok <=> owner \notin {"idle", "handwait", "finish"}
    /\ enc = "closed" <=> owner \in {"idle", "stop", "stopwait", "handshake",
                                     "handwait", "finish"}
    /\ writer = "none" <=> owner \in {"idle", "finish"}
    /\ input_busy => owner \in {"running", "busy"} /\ given < MaxPcm
    /\ writer = "head" <=> mutex = "writer"
    /\ writer = "head" => owner = "running"
    /\ writer = "rest" => status = 0
    /\ writer = "wild" => status = 0
    /\ owner = "open" => ~start /\ writer \in {"pend", "check"}
    /\ writer \in {"parking", "parked"} => owner = "handwait"
    /\ owner = "handwait" /\ ~wait_idle => writer = "parked"
    /\ owner = "stopwait" => ticks < StopTicks
    /\ owner \in {"open", "running", "busy", "encclose", "stop"} => ticks = 0
    /\ enc = "post" => sem < 2
    /\ writer # "write" => frame = 0

\* How the answer to enc_write_file_stop comes about: enc_write found the
\* buffer empty, at the latest when status was cleared.
Answers ==
    /\ enc_err <=> write_err
    /\ writer = "empty" => write_err \/ (status = 0 /\ file >= promised)
    /\ owner = "stopwait" /\ ~wait_stop => write_err \/ file >= promised
    /\ acked => /\ owner \in {"idle", "handshake", "handwait", "finish"}
                /\ write_err \/ file >= promised

\* The inductive invariant.
Sound == Phases /\ NothingLost /\ Answers
=============================================================================
