------------------------------ MODULE TwsOta ------------------------------
(***************************************************************************)
(* The update of a pair of speakers over the air.  A phone sends an image  *)
(* to the master, packet by packet; the master writes each packet to its   *)
(* own spare bank and passes it on to its sibling, the slave.  When all    *)
(* packets are there both verify their banks, and each burns its boot info *)
(* to start from the new image: the slave first.  Every command to the     *)
(* slave is answered, and the master waits for the answer on one semaphore *)
(* (update_tws_new.c, and app_protocol_ota.c for the side of the phone).   *)
(*                                                                         *)
(* The dual bank library is closed: lib models it from its header, a task  *)
(* that does the jobs it is given in turn and calls back after each.       *)
(***************************************************************************)
EXTENDS Integers, Sequences

CONSTANTS
  NumPackets,   \* packets of the image
  SnMod,        \* sequence numbers, 256 in the code (u8)
  Prompt,       \* TRUE: a wait of the master ends only when no answer can come
  MaxStarts,    \* bound: updates that the phone begins
  MaxFaults     \* bound: lost sends, detachments, restarts

SUCC == 1       \* OTA_TWS_CMD_SUCC
ERR  == 2       \* OTA_TWS_CMD_ERR
SPOILT == 0     \* a packet that the flash did not take

ASSUME OtaAssumption ==
  /\ NumPackets \in Nat \ {0} /\ SnMod \in Nat /\ SnMod > 1
  /\ Prompt \in BOOLEAN
  /\ MaxStarts \in Nat /\ MaxFaults \in Nat

VARIABLES
  link,       \* TWS_STA_SIBLING_CONNECTED
  net,        \* net[d]: packets on their way to d
  sn,         \* sync_update_sn of each side
  last,       \* last_sync_update_sn of each side
  boot,       \* the image that the boot info of each side names
  lib,        \* the update task of each side: its bank and its jobs
  pc,         \* what the master waits for on tws_ota_sem
  sem,        \* tws_ota_sem
  api,        \* app_protocol_update_tws_api is there: the pair is updated
  first,      \* sync_update_first_packet
  want,       \* the packet that the phone sends next
  phone,      \* "out" of an update, "waits" to be asked, "sends"
  timer,      \* tws_ota_timeout_hdl runs (slave)
  detached,   \* sides with TWS_EVENT_CONNECTION_DETACH in their queue
  resets,     \* sides that SYNC_CMD_UPDATE_OVER is about to reset
  starts, faults, restarted,
  overlap     \* history: an update began with packets of another on their way

netVars   == <<link, net, sn, detached>>
phoneVars == <<first, want, phone, starts>>
waitVars  == <<pc, sem, api>>
vars == <<netVars, last, boot, lib, waitVars, phoneVars, timer, resets,
          faults, restarted, overlap>>

Side == {"master", "slave"}
Other(d) == IF d = "master" THEN "slave" ELSE "master"
Image == [i \in 1..NumPackets |-> i]

Command == {"START", "DATA", "VERIFY", "INFO"}
Answer  == {"START_RSP", "DATA_RSP", "VERIFY_RSP", "INFO_RSP"}

----------------------------------------------------------------------------
(* The dual bank library. *)
Closed == [open |-> FALSE, image |-> <<>>, jobs |-> <<>>]
Opened == [open |-> TRUE,  image |-> <<>>, jobs |-> <<>>]

Write(p) == [op |-> "write", pkt |-> p]
Verify   == [op |-> "verify", pkt |-> 0]
Burn     == [op |-> "burn", pkt |-> 0]

\* A job for an update task that has ended is not done and not answered.
Given(l, op) == IF l.open THEN [l EXCEPT !.jobs = Append(@, op)] ELSE l
Done(l)      == [l EXCEPT !.jobs = Tail(@)]
Job(d, op)   == lib[d].jobs # <<>> /\ Head(lib[d].jobs) = op
Stored(l, p) == [Done(l) EXCEPT !.image = Append(@, p)]

----------------------------------------------------------------------------
(* The link between the two. *)
Fault == faults < MaxFaults /\ faults' = faults + 1
NoFault == UNCHANGED faults

\* What tws_ota_trans_to_sibling returns.
Transmits(ok) == \/ ok /\ link /\ NoFault
                 \/ ~ok /\ ~link /\ NoFault
                 \/ ~ok /\ link /\ Fault

\* Mutant: a sequence number wider than the byte of the packet.
SendOverNoWrap(queues, d, cmd, arg, ok) ==
  LET n == sn[d] + 1
      packet == [cmd |-> cmd, sn |-> n, arg |-> arg, again |-> FALSE]
  IN  /\ Transmits(ok)
      /\ sn' = [sn EXCEPT ![d] = n]
      /\ net' = IF ok THEN [queues EXCEPT ![Other(d)] = Append(@, packet)] ELSE queues

\* Mutant: the number of the last packet once more.
SendOverSameNumber(queues, d, cmd, arg, ok) ==
  LET packet == [cmd |-> cmd, sn |-> sn[d], arg |-> arg, again |-> FALSE]
  IN  /\ Transmits(ok)
      /\ UNCHANGED sn
      /\ net' = IF ok THEN [queues EXCEPT ![Other(d)] = Append(@, packet)] ELSE queues

\* ++sync_update_sn, and the packet is sent, or not; queues are the packets
\* on their way before.
SendOver(queues, d, cmd, arg, ok) ==
  LET n == (sn[d] + 1) % SnMod
      packet == [cmd |-> cmd, sn |-> n, arg |-> arg, again |-> FALSE]
  IN  /\ Transmits(ok)
      /\ sn' = [sn EXCEPT ![d] = n]
      /\ net' = IF ok THEN [queues EXCEPT ![Other(d)] = Append(@, packet)] ELSE queues
Send(d, cmd, arg, ok) == /\ SendOver(net, d, cmd, arg, ok)
                         /\ UNCHANGED <<link, detached>>

\* The callback for a received packet may run twice.
Taken(q) == {Tail(q)}
            \cup (IF Head(q).again THEN {}
                  ELSE {<<[Head(q) EXCEPT !.again = TRUE]>> \o Tail(q)})
\* Mutant: a repeated packet is handled again.
RepeatsNever(d) == FALSE

Repeats(d) == last[d] = Head(net[d]).sn

\* No answer to the master is on its way; a repeat may be, nobody handles it.
Quiet == /\ \A d \in Side : \A i \in DOMAIN net[d] : net[d][i].again
         /\ lib["slave"].jobs = <<>>

\* os_sem_pend: the answer, or OS_TIMEOUT.
Answered == sem > 0
TimedOut == sem = 0 /\ (Prompt => Quiet)

Init ==
  /\ link = TRUE /\ net = [d \in Side |-> <<>>]
  /\ sn = [d \in Side |-> 1] /\ last = [d \in Side |-> 0]
  /\ boot = [d \in Side |-> "old"] /\ lib = [d \in Side |-> Closed]
  /\ pc = "none" /\ sem = 0 /\ api = FALSE
  /\ first = FALSE /\ want = 0 /\ phone = "out"
  /\ timer = FALSE /\ detached = {} /\ resets = {}
  /\ starts = 0 /\ faults = 0 /\ restarted = FALSE /\ overlap = FALSE

----------------------------------------------------------------------------
(* The master: requests of the phone. *)
PhoneIs(p) == phone' = p
\* What was asked of the phone has come; what it asked for is answered.
PhoneHears == phone' = IF phone = "out" THEN "out" ELSE "waits"
AsksPhone == phone' = IF phone = "out" THEN "out" ELSE "sends"
PhoneBegins == PhoneIs("sends") /\ want' = 1
MasterLib(l) == lib' = [lib EXCEPT !["master"] = l]

\* The master has no room for the image.
NoRoom ==
  /\ MasterLib(Closed) /\ PhoneIs("out")
  /\ UNCHANGED <<netVars, waitVars, first, want, faults>>

\* get_tws_update_api finds no sibling: the master is updated alone.
Alone ==
  /\ ~link
  /\ MasterLib(Opened) /\ PhoneBegins
  /\ api' = FALSE /\ first' = TRUE
  /\ UNCHANGED <<netVars, pc, sem, faults>>

\* tws_ota_open
TwsOtaOpen ==
  /\ link
  /\ api' = TRUE /\ first' = TRUE /\ sem' = 0
  /\ PhoneIs("out") /\ UNCHANGED want
  /\ \E ok \in BOOLEAN :
       /\ Send("master", "START", 0, ok)
       /\ pc' = IF ok THEN "start" ELSE "none"
       /\ MasterLib(IF ok THEN Opened ELSE Closed)

\* APP_PROTOCOL_OTA_CHECK: the phone begins an update, even while packets and
\* answers of one that it has left are on their way.  The semaphore is reset,
\* but nothing tells their answers from the answers to what is sent now.
OtaCheck ==
  /\ pc = "none" /\ boot["master"] = "old" /\ starts < MaxStarts
  /\ starts' = starts + 1
  /\ overlap' = (overlap \/ ~Quiet)
  /\ NoRoom \/ Alone \/ TwsOtaOpen
  /\ UNCHANGED <<last, boot, timer, resets, restarted>>

StartWaits ==
  /\ pc = "start" /\ pc' = "none"
  /\ \/ /\ Answered /\ sem' = sem - 1
        /\ PhoneBegins /\ UNCHANGED lib
     \/ /\ TimedOut /\ MasterLib(Closed)
        /\ UNCHANGED <<sem, want, phone>>
  /\ UNCHANGED <<netVars, last, boot, api, first, starts, timer, resets, faults,
                 restarted, overlap>>

\* The packet goes to the own bank, then to the sibling.  A send that fails
\* is not noticed here (tws_ota_data_send_m_to_s).
WritePacket ==
  /\ MasterLib(Given(lib["master"], Write(want)))
  /\ first' = FALSE /\ PhoneHears
  /\ IF api THEN /\ sem' = 0
                 /\ \E ok \in BOOLEAN : Send("master", "DATA", want, ok)
            ELSE UNCHANGED <<netVars, sem, faults>>
  /\ UNCHANGED <<last, boot, api, want, starts, timer, resets,
                 restarted, overlap>>

\* APP_PROTOCOL_OTA_TRANS_DATA
TransData ==
  /\ pc = "none" /\ phone = "sends" /\ want \in 1..NumPackets
  /\ IF api /\ ~first
       THEN /\ pc' = "data"
            /\ UNCHANGED <<netVars, last, boot, lib, sem, api, phoneVars, timer,
                           resets, faults, restarted, overlap>>
       ELSE WritePacket /\ UNCHANGED pc

DataWaits ==
  /\ pc = "data" /\ pc' = "none"
  /\ \/ Answered /\ WritePacket
     \/ /\ TimedOut                         \* the packet is not written
        /\ UNCHANGED <<netVars, last, boot, lib, sem, api, phoneVars, timer,
                       resets, faults, restarted, overlap>>

\* APP_PROTOCOL_OTA_CHECK_CRC: waits for the answer to the last packet first.
CheckCrc ==
  /\ pc = "none" /\ phone = "sends" /\ want = NumPackets + 1
  /\ IF api THEN pc' = "last" /\ UNCHANGED <<lib, phone>>
            ELSE /\ MasterLib(Given(lib["master"], Verify))
                 /\ PhoneHears /\ UNCHANGED pc
  /\ UNCHANGED <<netVars, last, boot, sem, api, first, want, starts, timer,
                 resets, faults, restarted, overlap>>

\* tws_ota_enter_verify
LastWaits ==
  /\ pc = "last"
  /\ \/ /\ Answered /\ sem' = 0
        /\ \E ok \in BOOLEAN : /\ Send("master", "VERIFY", 0, ok)
                               /\ pc' = IF ok THEN "verify" ELSE "none"
     \/ /\ TimedOut /\ pc' = "none"
        /\ UNCHANGED <<netVars, sem, faults>>
  /\ UNCHANGED <<last, boot, lib, api, phoneVars, timer, resets,
                 restarted, overlap>>

VerifyWaits ==
  /\ pc = "verify" /\ pc' = "none"
  /\ \/ /\ Answered /\ sem' = sem - 1
        /\ MasterLib(Given(lib["master"], Verify)) /\ PhoneHears
     \/ TimedOut /\ UNCHANGED <<sem, lib, phone>>
  /\ UNCHANGED <<netVars, last, boot, api, first, want, starts, timer, resets,
                 faults, restarted, overlap>>

\* app_protocol_ota_interrupt_by_disconnect; after an update, a reset.
PhoneLeaves ==
  /\ phone # "out" /\ PhoneIs("out")
  /\ MasterLib(Closed)
  /\ resets' = IF boot["master"] = "new" THEN resets \cup {"master"} ELSE resets
  /\ UNCHANGED <<netVars, last, boot, waitVars, first, want, starts, timer,
                 faults, restarted, overlap>>

----------------------------------------------------------------------------
(* The master: callbacks of its update task. *)
\* passive_ota_write_callback
MasterWrote ==
  \E p \in 1..NumPackets :
    /\ Job("master", Write(p))
    /\ \E stored \in {p, SPOILT} : MasterLib(Stored(lib["master"], stored))
    /\ want' = p + 1 /\ AsksPhone
    /\ UNCHANGED <<netVars, last, boot, waitVars, first, starts, timer, resets,
                   faults, restarted, overlap>>

\* passive_ota_crc_result_call_back; in a pair the slave burns its boot info
\* now, and the master waits for it (tws_ota_exit_verify).
MasterVerified ==
  /\ Job("master", Verify)
  /\ IF lib["master"].image # Image
       THEN MasterLib(Closed) /\ AsksPhone /\ UNCHANGED <<netVars, pc, faults>>
       ELSE IF api
       THEN /\ MasterLib(Done(lib["master"]))
            /\ \E ok \in BOOLEAN :
                 /\ Send("master", "INFO", 0, ok)
                 /\ pc' = IF ok THEN "info" ELSE pc
                 /\ IF ok THEN UNCHANGED phone ELSE AsksPhone
       ELSE /\ MasterLib(Given(Done(lib["master"]), Burn))
            /\ UNCHANGED <<netVars, pc, phone, faults>>
  /\ UNCHANGED <<last, boot, sem, api, first, want, starts, timer, resets,
                 restarted, overlap>>

\* Mutant: the master burns although the slave has not answered.
InfoWaitsInVain ==
  /\ pc = "info" /\ pc' = "none"
  /\ \/ Answered /\ sem' = sem - 1
     \/ TimedOut /\ UNCHANGED sem
  /\ MasterLib(Given(lib["master"], Burn))
  /\ UNCHANGED <<netVars, last, boot, api, phoneVars, timer, resets, faults,
                 restarted, overlap>>

InfoWaits ==
  /\ pc = "info" /\ pc' = "none"
  /\ \/ /\ Answered /\ sem' = sem - 1
        /\ MasterLib(Given(lib["master"], Burn)) /\ UNCHANGED phone
     \/ TimedOut /\ AsksPhone /\ UNCHANGED <<sem, lib>>
  /\ UNCHANGED <<netVars, last, boot, api, first, want, starts, timer, resets,
                 faults, restarted, overlap>>

\* passive_ota_set_boot_info_callback, and tws_ota_result(0): both reset.
MasterBurnt ==
  /\ Job("master", Burn)
  /\ \/ /\ MasterLib(Done(lib["master"]))
        /\ boot' = [boot EXCEPT !["master"] = "new"]
        /\ resets' = IF api
                       THEN {"master"} \cup {d \in {"slave"} : link}
                       ELSE resets
     \/ MasterLib(Closed) /\ UNCHANGED <<boot, resets>>
  /\ UNCHANGED <<netVars, last, waitVars, phoneVars, timer, faults,
                 restarted, overlap>>

MasterReceives ==
  /\ net["master"] # <<>>
  /\ \E q \in Taken(net["master"]) : net' = [net EXCEPT !["master"] = q]
  /\ LET h == Head(net["master"])
     IN  /\ last' = [last EXCEPT !["master"] = h.sn]
         /\ sem' = IF ~Repeats("master") /\ h.cmd \in Answer /\ h.arg = SUCC
                     THEN sem + 1 ELSE sem
  /\ UNCHANGED <<link, sn, detached, boot, lib, pc, api, phoneVars, timer,
                 resets, faults, restarted, overlap>>

----------------------------------------------------------------------------
(* The slave: deal_sibling_tws_ota_trans and the callbacks. *)
SlaveLib(l) == lib' = [lib EXCEPT !["slave"] = l]

\* q is what the callback leaves in the queue.
Left(q) == [net EXCEPT !["slave"] = q]
Replies(q, cmd, arg, ok) == SendOver(Left(q), "slave", cmd, arg, ok)
Silent(q) == net' = Left(q) /\ UNCHANGED <<sn, faults>>

Starts(q) ==
  \E allowed, ok \in BOOLEAN :
    /\ SlaveLib(Opened)
    /\ Replies(q, "START_RSP", IF allowed THEN SUCC ELSE ERR, ok)

\* Without an update task the verification cannot begin, and the answer is a
\* byte short: the master reads whatever lies behind it.
Verifies(q) ==
  IF lib["slave"].open
    THEN SlaveLib(Given(lib["slave"], Verify)) /\ Silent(q)
    ELSE /\ UNCHANGED lib
         /\ \E arg \in {SUCC, ERR}, ok \in BOOLEAN : Replies(q, "VERIFY_RSP", arg, ok)

Handles(h, q) ==
  \/ h.cmd = "START" /\ Starts(q)
  \/ h.cmd = "DATA" /\ SlaveLib(Given(lib["slave"], Write(h.arg))) /\ Silent(q)
  \/ h.cmd = "VERIFY" /\ Verifies(q)
  \/ h.cmd = "INFO" /\ SlaveLib(Given(lib["slave"], Burn)) /\ Silent(q)

\* Mutant: the timeout begins with the first packet of the image.
SlaveReceivesNoTimer ==
  /\ net["slave"] # <<>>
  /\ \E q \in Taken(net["slave"]) :
       LET h == Head(net["slave"])
       IN  IF Repeats("slave")
             THEN Silent(q) /\ UNCHANGED <<lib, last, timer>>
             ELSE /\ Handles(h, q)
                  /\ last' = [last EXCEPT !["slave"] = h.sn]
                  /\ timer' = (timer \/ h.cmd # "START")
  /\ UNCHANGED <<link, detached, boot, waitVars, phoneVars, resets,
                 restarted, overlap>>

SlaveReceives ==
  /\ net["slave"] # <<>>
  /\ \E q \in Taken(net["slave"]) :
       LET h == Head(net["slave"])
       IN  IF Repeats("slave")
             THEN Silent(q) /\ UNCHANGED <<lib, last, timer>>
             ELSE /\ Handles(h, q)
                  /\ last' = [last EXCEPT !["slave"] = h.sn]
                  /\ timer' = TRUE
  /\ UNCHANGED <<link, detached, boot, waitVars, phoneVars, resets,
                 restarted, overlap>>

\* tws_trans_data_write_callback: an error of the flash is not looked at.
SlaveWrote ==
  \E p \in 1..NumPackets, ok \in BOOLEAN :
    /\ Job("slave", Write(p))
    /\ \E stored \in {p, SPOILT} : SlaveLib(Stored(lib["slave"], stored))
    /\ Send("slave", "DATA_RSP", SUCC, ok)
    /\ UNCHANGED <<last, boot, waitVars, phoneVars, timer, resets,
                   restarted, overlap>>

\* Mutant: every result of the verification is taken for a success.
SlaveVerifiedAnyway ==
  /\ Job("slave", Verify)
  /\ SlaveLib(Done(lib["slave"]))
  /\ \E ok \in BOOLEAN : Send("slave", "VERIFY_RSP", SUCC, ok)
  /\ UNCHANGED <<last, boot, waitVars, phoneVars, timer, resets,
                 restarted, overlap>>

\* tws_verify_result_hdl
SlaveVerified ==
  /\ Job("slave", Verify)
  /\ SlaveLib(Done(lib["slave"]))
  /\ \E ok \in BOOLEAN :
       Send("slave", "VERIFY_RSP",
            IF lib["slave"].image = Image THEN SUCC ELSE ERR, ok)
  /\ UNCHANGED <<last, boot, waitVars, phoneVars, timer, resets,
                 restarted, overlap>>

\* dual_bank_update_burn_boot_info_callback: a failure is not answered.
SlaveBurnt ==
  /\ Job("slave", Burn)
  /\ SlaveLib(Done(lib["slave"]))
  /\ \/ /\ boot' = [boot EXCEPT !["slave"] = "new"]
        /\ \E ok \in BOOLEAN : Send("slave", "INFO_RSP", SUCC, ok)
     \/ /\ sn' = [sn EXCEPT !["slave"] = (@ + 1) % SnMod]
        /\ UNCHANGED <<boot, link, net, detached, faults>>
  /\ UNCHANGED <<last, waitVars, phoneVars, timer, resets, restarted, overlap>>

\* tws_ota_timeout: 8 s without a command.
SlaveTimeout ==
  /\ timer /\ net["slave"] = <<>>
  /\ timer' = FALSE /\ SlaveLib(Closed)
  /\ UNCHANGED <<netVars, last, boot, waitVars, phoneVars, resets, faults,
                 restarted, overlap>>

----------------------------------------------------------------------------
(* Both sides: the link and resets. *)
Detach ==
  /\ link /\ Fault
  /\ link' = FALSE /\ net' = [d \in Side |-> <<>>] /\ detached' = Side
  /\ UNCHANGED <<sn, last, boot, lib, waitVars, phoneVars, timer, resets,
                 restarted, overlap>>

Attach ==
  /\ ~link /\ link' = TRUE
  /\ UNCHANGED <<net, sn, detached, last, boot, lib, waitVars, phoneVars, timer,
                 resets, faults, restarted, overlap>>

\* tws_ota_app_event_deal and tws_ota_stop
TwsOtaStop(d) ==
  /\ d \in detached /\ detached' = detached \ {d}
  /\ lib' = [lib EXCEPT ![d] = Closed]
  /\ UNCHANGED <<link, net, sn, last, boot, waitVars, phoneVars, timer, resets,
                 faults, restarted, overlap>>

\* cpu_reset, or a speaker is switched off and on.
Restart(d) ==
  /\ \/ d \in resets /\ NoFault
     \/ d \notin resets /\ Fault
  /\ resets' = resets \ {d} /\ restarted' = TRUE
  /\ sn' = [sn EXCEPT ![d] = 1] /\ last' = [last EXCEPT ![d] = 0]
  /\ lib' = [lib EXCEPT ![d] = Closed]
  /\ link' = FALSE /\ net' = [e \in Side |-> <<>>]
  /\ detached' = (detached \ {d}) \cup {e \in {Other(d)} : link}
  /\ IF d = "master"
       THEN /\ pc' = "none" /\ sem' = 0 /\ api' = FALSE
            /\ first' = FALSE /\ PhoneIs("out") /\ UNCHANGED <<want, timer>>
       ELSE timer' = FALSE /\ UNCHANGED <<waitVars, first, want, phone>>
  /\ UNCHANGED <<boot, starts, overlap>>

Master == \/ StartWaits \/ DataWaits \/ LastWaits \/ VerifyWaits \/ InfoWaits
          \/ MasterWrote \/ MasterVerified \/ MasterBurnt \/ MasterReceives
Slave  == \/ SlaveReceives \/ SlaveWrote \/ SlaveVerified \/ SlaveBurnt
          \/ SlaveTimeout
Phone  == OtaCheck \/ TransData \/ CheckCrc \/ PhoneLeaves
Radio  == Detach \/ Attach \/ \E d \in Side : TwsOtaStop(d) \/ Restart(d)

Next == Master \/ Slave \/ Phone \/ Radio

\* Tasks run, callbacks come and timers fire.  The phone owes nothing.
Fairness == /\ WF_vars(Master) /\ WF_vars(SlaveTimeout)
            /\ WF_vars(SlaveReceives \/ SlaveWrote \/ SlaveVerified \/ SlaveBurnt)
            /\ WF_vars(\E d \in Side : TwsOtaStop(d))

Spec == Init /\ [][Next]_vars /\ Fairness

----------------------------------------------------------------------------
Packet == [cmd : {"DATA"}, sn : 0..SnMod - 1, arg : 1..NumPackets,
           again : BOOLEAN]
          \cup [cmd : (Command \ {"DATA"}) \cup Answer, sn : 0..SnMod - 1,
                arg : {0, SUCC, ERR}, again : BOOLEAN]
Jobs == {Write(p) : p \in 1..NumPackets} \cup {Verify, Burn}
Lib == [open : BOOLEAN, image : Seq(0..NumPackets), jobs : Seq(Jobs)]

\* Every variable has its type.
TypeOK ==
  /\ link \in BOOLEAN /\ net \in [Side -> Seq(Packet)]
  /\ sn \in [Side -> 0..SnMod - 1] /\ last \in [Side -> 0..SnMod - 1]
  /\ boot \in [Side -> {"old", "new"}] /\ lib \in [Side -> Lib]
  /\ pc \in {"none", "start", "data", "last", "verify", "info"}
  /\ sem \in Nat /\ api \in BOOLEAN /\ first \in BOOLEAN
  /\ want \in 0..NumPackets + 1 /\ phone \in {"out", "waits", "sends"} /\ timer \in BOOLEAN
  /\ detached \subseteq Side /\ resets \subseteq Side
  /\ starts \in 0..MaxStarts /\ faults \in 0..MaxFaults
  /\ restarted \in BOOLEAN /\ overlap \in BOOLEAN

\* In an update of the pair the master does not change to the new image
\* before its sibling has: neither when it has begun to burn nor afterwards.
\* An update that begins while another is on its way breaks it, and the two
\* properties of the slave below: the old answers are taken for the new ones.
MasterBurnsLast ==
  api /\ ~overlap
      /\ (\/ boot["master"] = "new"
          \/ \E i \in DOMAIN lib["master"].jobs : lib["master"].jobs[i] = Burn)
    => boot["slave"] = "new"

Burning(d) == lib[d].jobs # <<>> /\ Head(lib[d].jobs) = Burn

\* The bank that a side burns its boot info for holds the whole image, and no
\* packet twice: what the repeats of the radio, lost sends and packets that
\* the phone sends again could break.  The master never burns another; the
\* slave relies on the master to ask in time.
BurnsWhole ==
  /\ Burning("master") => lib["master"].image = Image
  /\ Burning("slave") /\ ~overlap => lib["slave"].image = Image

\* The slave follows within one packet: the master takes no packet before the
\* one before it is in the bank of the slave, which holds no packet twice and
\* leaves none out.
InStep ==
  ~overlap =>
    LET bank == lib["slave"].image IN
    /\ \A i \in DOMAIN bank : bank[i] \in {i, SPOILT}
    /\ api /\ lib["slave"].open => Len(bank) + 1 >= Len(lib["master"].image)

\* Only a repeated packet is dropped as one, as long as no speaker restarts.
FreshIsTaken ==
  ~restarted /\ ~overlap => \A d \in Side :
     net[d] # <<>> /\ ~Head(net[d]).again => ~Repeats(d)

\* The slave does not stay in an update that the master has given up.
SlaveLeaves == lib["slave"].open ~> ~lib["slave"].open
=============================================================================
