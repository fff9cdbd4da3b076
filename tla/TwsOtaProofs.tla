--------------------------- MODULE TwsOtaProofs ---------------------------
(***************************************************************************)
(* Proofs about TwsOta.  One thing is under way at a time: a command, the  *)
(* job it gives to the slave, the answer, or the token on the semaphore.   *)
(* What it is about follows from what the master waits for, and so the     *)
(* master knows, when a wait ends, that the slave has done its part.       *)
(***************************************************************************)
EXTENDS TwsOta, SequenceTheorems, TLAPS

MasterJobs == lib["master"].jobs
SlaveJobs  == lib["slave"].jobs

\* A side without an update task has no jobs; the master has one at most, and
\* waits for nothing meanwhile.
JobsOK ==
  /\ \A d \in Side : ~lib[d].open => lib[d].jobs = <<>>
  /\ Len(MasterJobs) <= 1
  /\ MasterJobs # <<>> => pc = "none" /\ phone = "waits"
  /\ phone = "out" /\ pc # "start" => ~lib["master"].open
  /\ pc = "info" => phone # "sends"

DataIsPacket == pc = "data" => want \in 1..NumPackets

IInv == TypeOK /\ JobsOK /\ DataIsPacket

----------------------------------------------------------------------------
\* A queue holds one new packet at most, behind the repeat of the one before.
Shape(q) == Len(q) <= 2 /\ (Len(q) = 2 => q[1].again /\ ~q[2].again)
Busy(q)  == q # <<>> /\ ~q[Len(q)].again
Newest(q) == q[Len(q)]

\* A repeat has the number of the last packet that was handled.
Fine(queues, numbers) ==
  \A d \in Side :
    /\ Shape(queues[d])
    /\ queues[d] # <<>> /\ queues[d][1].again => queues[d][1].sn = numbers[d]

QueuesOK == Fine(net, last)

OneAtATime ==
  /\ sem <= 1 /\ Len(SlaveJobs) <= 1
  /\ Busy(net["slave"]) => sem = 0 /\ ~Busy(net["master"]) /\ SlaveJobs = <<>>
  /\ Busy(net["master"]) => sem = 0 /\ SlaveJobs = <<>>
  /\ SlaveJobs # <<>> => sem = 0

Still == /\ ~Busy(net["slave"]) /\ ~Busy(net["master"])
         /\ sem = 0 /\ SlaveJobs = <<>>

WaitsOK ==
  /\ pc # "none" => api
  /\ pc \notin {"none", "start"} => ~first
  /\ phone # "out" /\ first => want = 1
  /\ MasterJobs # <<>> => ~first
  /\ pc = "none" /\ api /\ first /\ phone # "out" => Still

Whole(d) == lib[d].open => lib[d].image = Image

VerifyOK ==
  pc = "verify" =>
    /\ Busy(net["slave"]) => Newest(net["slave"]).cmd = "VERIFY"
    /\ SlaveJobs # <<>> => SlaveJobs[1] = Verify
    /\ Busy(net["master"]) /\ Newest(net["master"]).arg = SUCC => Whole("slave")
    /\ sem > 0 => Whole("slave")

VerifiedOK ==
  api /\ MasterJobs # <<>> /\ MasterJobs[1] = Verify => Still /\ Whole("slave")

InfoOK ==
  /\ Busy(net["slave"]) /\ Newest(net["slave"]).cmd = "INFO" => pc = "info"
  /\ pc = "info" =>
       /\ Whole("slave") /\ Whole("master")
       /\ Busy(net["slave"]) => Newest(net["slave"]).cmd = "INFO"
       /\ SlaveJobs # <<>> => SlaveJobs[1] = Burn
       /\ Busy(net["master"]) /\ Newest(net["master"]).arg = SUCC
            => boot["slave"] = "new"
       /\ sem > 0 => boot["slave"] = "new"

BurnOK ==
  /\ \A d \in Side :
       lib[d].jobs # <<>> /\ lib[d].jobs[1] = Burn => lib[d].image = Image
  /\ api /\ (boot["master"] = "new" \/ (MasterJobs # <<>> /\ MasterJobs[1] = Burn))
       => boot["slave"] = "new"

PInv == /\ QueuesOK /\ OneAtATime /\ WaitsOK /\ VerifyOK /\ VerifiedOK /\ InfoOK
        /\ BurnOK

----------------------------------------------------------------------------
(* Types. *)
LEMMA ClosedType == Closed \in Lib /\ Opened \in Lib
  BY DEF Closed, Opened, Lib

LEMMA GivenType ==
  ASSUME NEW l \in Lib, NEW op \in Jobs
  PROVE  Given(l, op) \in Lib
  BY DEF Given, Lib

\* A job for a side that has none is its only one, if it is taken at all.
LEMMA GivenFirst ==
  ASSUME NEW l \in Lib, NEW op \in Jobs, l.jobs = <<>>
  PROVE  /\ Given(l, op).open = l.open /\ Given(l, op).image = l.image
         /\ Given(l, op).jobs = IF l.open THEN <<op>> ELSE <<>>
  BY DEF Given, Lib

LEMMA DoneType ==
  ASSUME NEW l \in Lib, l.jobs # <<>>
  PROVE  Done(l) \in Lib
  <1>1. l.jobs \in Seq(Jobs)
    BY DEF Lib
  <1>2. Tail(l.jobs) \in Seq(Jobs)
    BY <1>1
  <1> QED
    BY <1>2 DEF Done, Lib

LEMMA StoredType ==
  ASSUME NEW l \in Lib, l.jobs # <<>>, NEW p \in 0..NumPackets
  PROVE  Stored(l, p) \in Lib
  <1>1. Done(l) \in Lib
    BY DoneType
  <1>2. Append(Done(l).image, p) \in Seq(0..NumPackets)
    BY <1>1 DEF Lib
  <1> QED
    BY <1>1, <1>2 DEF Stored, Lib

\* The next sequence number is one.
LEMMA NextNumber ==
  ASSUME NEW n \in 0..SnMod - 1
  PROVE  (n + 1) % SnMod \in 0..SnMod - 1
  BY OtaAssumption DEF OtaAssumption

Fits(cmd, arg) == \/ cmd = "DATA" /\ arg \in 1..NumPackets
                  \/ cmd \in (Command \ {"DATA"}) \cup Answer /\ arg \in {0, SUCC, ERR}

\* What a send does: a new packet at the end of one queue, or nothing.
LEMMA SendFacts ==
  ASSUME TypeOK, NEW queues \in [Side -> Seq(Packet)], NEW d \in Side,
         NEW cmd, NEW arg, Fits(cmd, arg), NEW ok \in BOOLEAN,
         SendOver(queues, d, cmd, arg, ok)
  PROVE  /\ sn' \in [Side -> 0..SnMod - 1]
         /\ faults' \in 0..MaxFaults
         /\ net' \in [Side -> Seq(Packet)]
         /\ \E p \in Packet :
              /\ ~p.again /\ p.cmd = cmd /\ p.arg = arg
              /\ net' = IF ok THEN [queues EXCEPT ![Other(d)] = Append(@, p)]
                             ELSE queues
  <1> DEFINE n == (sn[d] + 1) % SnMod
             p == [cmd |-> cmd, sn |-> n, arg |-> arg, again |-> FALSE]
  <1>1. n \in 0..SnMod - 1
    BY NextNumber DEF TypeOK
  <1>2. p \in Packet /\ ~p.again /\ p.cmd = cmd /\ p.arg = arg
    BY <1>1 DEF Packet, Fits
  <1>3. sn' = [sn EXCEPT ![d] = n]
    BY DEF SendOver
  <1>4. net' = IF ok THEN [queues EXCEPT ![Other(d)] = Append(@, p)] ELSE queues
    BY DEF SendOver
  <1>5. faults' \in 0..MaxFaults
    <2>1. faults \in 0..MaxFaults /\ MaxFaults \in Nat
      BY OtaAssumption DEF TypeOK, OtaAssumption
    <2>2. NoFault \/ Fault
      BY DEF SendOver, Transmits
    <2> QED
      BY <2>1, <2>2 DEF NoFault, Fault
  <1>6. Other(d) \in Side
    BY DEF Other, Side
  <1> HIDE DEF n, p
  <1>7. sn' \in [Side -> 0..SnMod - 1]
    BY <1>1, <1>3 DEF TypeOK
  <1>8. net' \in [Side -> Seq(Packet)]
    BY <1>2, <1>4, <1>6
  <1> QED
    BY <1>2, <1>4, <1>5, <1>7, <1>8

\* What the callback leaves is a queue of packets.
LEMMA TakenType ==
  ASSUME NEW q \in Seq(Packet), q # <<>>, NEW r \in Taken(q)
  PROVE  r \in Seq(Packet)
  <1>1. Head(q) \in Packet /\ Tail(q) \in Seq(Packet)
    OBVIOUS
  <1>2. [Head(q) EXCEPT !.again = TRUE] \in Packet
    BY <1>1 DEF Packet
  <1>3. <<[Head(q) EXCEPT !.again = TRUE]>> \o Tail(q) \in Seq(Packet)
    BY <1>1, <1>2
  <1> QED
    BY <1>1, <1>3 DEF Taken

LEMMA LibType ==
  ASSUME TypeOK, NEW d \in Side, NEW l \in Lib, lib' = [lib EXCEPT ![d] = l]
  PROVE  lib' \in [Side -> Lib]
  BY DEF TypeOK

LEMMA JobTypes ==
  /\ Verify \in Jobs /\ Burn \in Jobs
  /\ \A p \in 1..NumPackets : Write(p) \in Jobs
  /\ "master" \in Side /\ "slave" \in Side
  BY DEF Jobs, Side

\* Constants and numbers that the types of many steps need.
LEMMA Numbers ==
  /\ NumPackets \in Nat /\ NumPackets > 0 /\ SnMod \in Nat /\ SnMod > 1
  /\ MaxStarts \in Nat /\ MaxFaults \in Nat
  /\ 1 \in 0..SnMod - 1 /\ 0 \in 0..SnMod - 1
  /\ 1 \in 0..NumPackets + 1
  BY OtaAssumption DEF OtaAssumption

LEMMA SendType ==
  ASSUME TypeOK, NEW d \in Side, NEW cmd, NEW arg, Fits(cmd, arg),
         NEW ok \in BOOLEAN, Send(d, cmd, arg, ok)
  PROVE  /\ sn' \in [Side -> 0..SnMod - 1] /\ faults' \in 0..MaxFaults
         /\ net' \in [Side -> Seq(Packet)]
         /\ link' = link /\ detached' = detached
  <1>1. net \in [Side -> Seq(Packet)] /\ SendOver(net, d, cmd, arg, ok)
    BY DEF TypeOK, Send
  <1>2. link' = link /\ detached' = detached
    BY DEF Send
  <1> QED
    BY <1>1, <1>2, SendFacts

NetType == /\ sn' \in [Side -> 0..SnMod - 1] /\ faults' \in 0..MaxFaults
           /\ net' \in [Side -> Seq(Packet)]
           /\ link' = link /\ detached' = detached

LEMMA TypeOtaCheck ==
  ASSUME IInv, OtaCheck
  PROVE  IInv'
  <1> USE DEF IInv
  <1>1. starts' \in 0..MaxStarts
    BY Numbers DEF OtaCheck, TypeOK
  <1>0. overlap' \in BOOLEAN
    BY DEF OtaCheck
  <1>2. /\ UNCHANGED <<last, boot, timer, resets, restarted>>
        /\ pc = "none"
    BY DEF OtaCheck
  <1>3. CASE NoRoom
    <2>1. lib' \in [Side -> Lib]
      BY <1>3, ClosedType, LibType, JobTypes DEF NoRoom, MasterLib
    <2>2. TypeOK'
      BY <1>0, <1>1, <1>2, <1>3, <2>1 DEF TypeOK, NoRoom, netVars, waitVars, PhoneIs
    <2>3. JobsOK' /\ DataIsPacket'
      BY <1>2, <1>3, JobTypes
         DEF TypeOK, JobsOK, DataIsPacket, MasterJobs, NoRoom, waitVars, PhoneIs,
             MasterLib, Closed
    <2> QED
      BY <2>2, <2>3
  <1>4. CASE Alone
    <2>1. lib' \in [Side -> Lib]
      BY <1>4, ClosedType, LibType, JobTypes DEF Alone, MasterLib
    <2>2. TypeOK'
      BY <1>0, <1>1, <1>2, <1>4, <2>1, Numbers
         DEF TypeOK, Alone, netVars, waitVars, PhoneIs, PhoneBegins
    <2>3. JobsOK' /\ DataIsPacket'
      BY <1>2, <1>4, JobTypes
         DEF TypeOK, JobsOK, DataIsPacket, MasterJobs, Alone, PhoneIs, PhoneBegins,
             MasterLib, Opened
    <2> QED
      BY <2>2, <2>3
  <1>5. CASE TwsOtaOpen
    <2>1. PICK ok \in BOOLEAN :
            /\ Send("master", "START", 0, ok)
            /\ pc' = IF ok THEN "start" ELSE "none"
            /\ MasterLib(IF ok THEN Opened ELSE Closed)
      BY <1>5 DEF TwsOtaOpen
    <2>2. lib' \in [Side -> Lib]
      BY <2>1, ClosedType, LibType, JobTypes DEF MasterLib
    <2>3. NetType
      BY <2>1, SendType, JobTypes DEF NetType, Fits, Command
    <2>4. TypeOK'
      BY <1>0, <1>1, <1>2, <1>5, <2>1, <2>2, <2>3 DEF TypeOK, NetType, TwsOtaOpen, PhoneIs
    <2>5. JobsOK' /\ DataIsPacket'
      BY <1>2, <1>5, <2>1, JobTypes
         DEF TypeOK, JobsOK, DataIsPacket, MasterJobs, TwsOtaOpen, PhoneIs,
             MasterLib, Opened, Closed
    <2> QED
      BY <2>4, <2>5
  <1> QED
    BY <1>3, <1>4, <1>5 DEF OtaCheck

LEMMA TypeStartWaits ==
  ASSUME IInv, StartWaits
  PROVE  IInv'
  <1> USE DEF IInv
  <1>1. lib' \in [Side -> Lib]
    BY ClosedType, LibType, JobTypes DEF StartWaits, MasterLib, TypeOK
  <1>2. /\ UNCHANGED <<link, net, sn, detached, last, boot, api, first, starts, timer,
                     resets, faults, restarted, overlap>>
        /\ pc' = "none"
    BY DEF StartWaits, netVars
  <1>3. sem' \in Nat
    BY DEF StartWaits, Answered, TypeOK
  <1>4. want' \in 0..NumPackets + 1 /\ phone' \in {"out", "waits", "sends"}
    BY Numbers DEF StartWaits, PhoneBegins, PhoneIs, TypeOK
  <1>8. TypeOK'
    BY <1>1, <1>2, <1>3, <1>4 DEF TypeOK
  <1>9. JobsOK' /\ DataIsPacket'
    BY JobTypes, Numbers
       DEF StartWaits, TypeOK, JobsOK, DataIsPacket, MasterJobs, netVars, waitVars,
           phoneVars, MasterLib, SlaveLib, PhoneIs, PhoneBegins, PhoneHears,
           AsksPhone, Given, Done, Closed, Opened, Side
  <1> QED
    BY <1>8, <1>9

LEMMA TypeWritePacket ==
  ASSUME IInv, WritePacket, pc' = "none", want \in 1..NumPackets,
         MasterJobs = <<>>, pc # "start"
  PROVE  IInv'
  <1> USE DEF IInv
  <1>1. lib' \in [Side -> Lib]
    BY GivenType, LibType, JobTypes DEF WritePacket, MasterLib, TypeOK
  <1>2. NetType /\ sem' \in Nat
    <2>1. CASE api
      <3>1. PICK ok \in BOOLEAN : Send("master", "DATA", want, ok)
        BY <2>1 DEF WritePacket
      <3>2. NetType
        BY <3>1, SendType, JobTypes DEF NetType, Fits
      <3> QED
        BY <2>1, <3>2 DEF WritePacket
    <2>2. CASE ~api
      BY <2>2 DEF WritePacket, netVars, NetType, TypeOK
    <2> QED
      BY <2>1, <2>2
  <1>3. TypeOK'
    BY <1>1, <1>2 DEF WritePacket, TypeOK, NetType, PhoneHears
  <1>4. JobsOK' /\ DataIsPacket'
    BY JobTypes DEF WritePacket, TypeOK, JobsOK, DataIsPacket, MasterJobs, MasterLib, Given, PhoneHears
  <1> QED
    BY <1>3, <1>4

LEMMA TypeTransData ==
  ASSUME IInv, TransData
  PROVE  IInv'
  <1> USE DEF IInv
  <1>1. pc = "none" /\ phone = "sends" /\ want \in 1..NumPackets /\ MasterJobs = <<>>
    BY DEF TransData, JobsOK
  <1>2. CASE api /\ ~first
    BY <1>1, <1>2 DEF TransData, TypeOK, JobsOK, DataIsPacket, MasterJobs, netVars, phoneVars
  <1>3. CASE ~(api /\ ~first)
    BY <1>1, <1>3, TypeWritePacket DEF TransData
  <1> QED
    BY <1>2, <1>3

LEMMA TypeDataWaits ==
  ASSUME IInv, DataWaits
  PROVE  IInv'
  <1> USE DEF IInv
  <1>1. pc = "data" /\ pc' = "none" /\ want \in 1..NumPackets /\ MasterJobs = <<>>
    BY DEF DataWaits, JobsOK, DataIsPacket
  <1>2. CASE WritePacket
    BY <1>1, <1>2, TypeWritePacket
  <1>3. CASE TimedOut
    BY <1>1, <1>2, TypeWritePacket DEF DataWaits, TypeOK, JobsOK, DataIsPacket, MasterJobs, netVars, phoneVars
  <1> QED
    BY <1>2, <1>3 DEF DataWaits

LEMMA TypeCheckCrc ==
  ASSUME IInv, CheckCrc
  PROVE  IInv'
  <1> USE DEF IInv
  <1>1. lib' \in [Side -> Lib]
    BY GivenType, LibType, JobTypes DEF CheckCrc, MasterLib, TypeOK
  <1>2. TypeOK'
    BY <1>1 DEF CheckCrc, TypeOK, netVars, PhoneHears
  <1>3. JobsOK' /\ DataIsPacket'
    <2>1. CASE api
      BY <2>1, JobTypes DEF CheckCrc, TypeOK, JobsOK, DataIsPacket, MasterJobs
    <2>2. CASE ~api
      <3>1. MasterJobs = <<>> /\ lib["master"] \in Lib
        BY <2>2, JobTypes DEF CheckCrc, TypeOK, JobsOK, DataIsPacket, MasterJobs
      <3>2. lib' = [lib EXCEPT !["master"] = Given(lib["master"], Verify)]
        BY <2>2 DEF CheckCrc, MasterLib
      <3>3. /\ lib'["master"].jobs = IF lib["master"].open THEN <<Verify>> ELSE <<>>
            /\ lib'["master"].open = lib["master"].open
            /\ lib'["slave"] = lib["slave"]
        BY <3>1, <3>2, GivenFirst, JobTypes DEF TypeOK, MasterJobs
      <3>4. MasterJobs' = <<>> \/ (MasterJobs' = <<Verify>> /\ lib["master"].open)
        BY <3>3 DEF MasterJobs
      <3>5. Len(MasterJobs') <= 1
        BY <3>4
      <3>6. pc' = "none" /\ phone' = IF phone = "out" THEN "out" ELSE "waits"
        BY <2>2 DEF CheckCrc, PhoneHears, JobsOK, TypeOK
      <3> QED
        BY <2>2, <3>3, <3>4, <3>5, <3>6 DEF JobsOK, DataIsPacket, MasterJobs, Side, CheckCrc
    <2> QED
      BY <2>1, <2>2
  <1> QED
    BY <1>2, <1>3

LEMMA TypeLastWaits ==
  ASSUME IInv, LastWaits
  PROVE  IInv'
  <1> USE DEF IInv
  <1>1. NetType /\ sem' \in Nat /\ pc' \in {"none", "verify"}
    <2>1. CASE Answered
      <3>1. ASSUME NEW ok \in BOOLEAN, Send("master", "VERIFY", 0, ok)
            PROVE  NetType
        BY <3>1, SendType, JobTypes DEF NetType, Fits, Command
      <3> QED
        BY <2>1, <3>1 DEF LastWaits, Answered, TimedOut, TypeOK
    <2>2. CASE ~Answered
      BY <2>2 DEF LastWaits, netVars, NetType, TypeOK
    <2> QED
      BY <2>1, <2>2
  <1>2. TypeOK'
    BY <1>1 DEF LastWaits, TypeOK, NetType, phoneVars
  <1>3. JobsOK' /\ DataIsPacket'
    BY <1>1 DEF LastWaits, TypeOK, JobsOK, DataIsPacket, MasterJobs, phoneVars
  <1> QED
    BY <1>2, <1>3

LEMMA TypeVerifyWaits ==
  ASSUME IInv, VerifyWaits
  PROVE  IInv'
  <1> USE DEF IInv
  <1>1. lib' \in [Side -> Lib] /\ sem' \in Nat
    <2>1. lib["master"] \in Lib /\ sem \in Nat /\ lib \in [Side -> Lib]
      BY JobTypes DEF TypeOK
    <2>2. Given(lib["master"], Verify) \in Lib
      BY <2>1, GivenType, JobTypes
    <2>3. CASE Answered /\ sem' = sem - 1 /\ MasterLib(Given(lib["master"], Verify))
      <3>1. lib' \in [Side -> Lib]
        BY <2>2, <2>3, LibType, JobTypes DEF MasterLib
      <3> QED
        BY <2>1, <2>3, <3>1 DEF Answered
    <2>4. CASE UNCHANGED <<sem, lib>>
      BY <2>1, <2>4
    <2> QED
      BY <2>3, <2>4 DEF VerifyWaits
  <1>2. TypeOK'
    BY <1>1 DEF VerifyWaits, TypeOK, netVars, PhoneHears
  <1>3. JobsOK' /\ DataIsPacket'
    <2>1. CASE Answered
      <3>1. MasterJobs = <<>> /\ lib["master"] \in Lib
        BY <2>1, JobTypes DEF VerifyWaits, TypeOK, JobsOK, DataIsPacket, MasterJobs
      <3>2. lib' = [lib EXCEPT !["master"] = Given(lib["master"], Verify)]
        BY <2>1 DEF VerifyWaits, MasterLib, Answered, TimedOut
      <3>3. /\ lib'["master"].jobs = IF lib["master"].open THEN <<Verify>> ELSE <<>>
            /\ lib'["master"].open = lib["master"].open
            /\ lib'["slave"] = lib["slave"]
        BY <3>1, <3>2, GivenFirst, JobTypes DEF TypeOK, MasterJobs
      <3>4. MasterJobs' = <<>> \/ (MasterJobs' = <<Verify>> /\ lib["master"].open)
        BY <3>3 DEF MasterJobs
      <3>5. Len(MasterJobs') <= 1
        BY <3>4
      <3>6. pc' = "none" /\ phone' = IF phone = "out" THEN "out" ELSE "waits"
        BY <2>1 DEF VerifyWaits, PhoneHears, JobsOK, TypeOK, Answered, TimedOut
      <3> QED
        BY <2>1, <3>3, <3>4, <3>5, <3>6 DEF JobsOK, DataIsPacket, MasterJobs, Side, VerifyWaits
    <2>2. CASE ~Answered
      BY <2>2, JobTypes DEF VerifyWaits, TypeOK, JobsOK, DataIsPacket, MasterJobs
    <2> QED
      BY <2>1, <2>2
  <1> QED
    BY <1>2, <1>3

LEMMA TypeInfoWaits ==
  ASSUME IInv, InfoWaits
  PROVE  IInv'
  <1> USE DEF IInv
  <1>1. lib' \in [Side -> Lib] /\ sem' \in Nat
    <2>1. lib["master"] \in Lib /\ sem \in Nat /\ lib \in [Side -> Lib]
      BY JobTypes DEF TypeOK
    <2>2. Given(lib["master"], Burn) \in Lib
      BY <2>1, GivenType, JobTypes
    <2>3. CASE Answered /\ sem' = sem - 1 /\ MasterLib(Given(lib["master"], Burn))
      <3>1. lib' \in [Side -> Lib]
        BY <2>2, <2>3, LibType, JobTypes DEF MasterLib
      <3> QED
        BY <2>1, <2>3, <3>1 DEF Answered
    <2>4. CASE UNCHANGED <<sem, lib>>
      BY <2>1, <2>4
    <2> QED
      BY <2>3, <2>4 DEF InfoWaits
  <1>2. TypeOK'
    BY <1>1 DEF InfoWaits, TypeOK, netVars, AsksPhone
  <1>3. JobsOK' /\ DataIsPacket'
    <2>1. CASE Answered
      <3>1. MasterJobs = <<>> /\ lib["master"] \in Lib
        BY <2>1, JobTypes DEF InfoWaits, TypeOK, JobsOK, DataIsPacket, MasterJobs
      <3>2. lib' = [lib EXCEPT !["master"] = Given(lib["master"], Burn)]
        BY <2>1 DEF InfoWaits, MasterLib, Answered, TimedOut
      <3>3. /\ lib'["master"].jobs = IF lib["master"].open THEN <<Burn>> ELSE <<>>
            /\ lib'["master"].open = lib["master"].open
            /\ lib'["slave"] = lib["slave"]
        BY <3>1, <3>2, GivenFirst, JobTypes DEF TypeOK, MasterJobs
      <3>4. MasterJobs' = <<>> \/ (MasterJobs' = <<Burn>> /\ lib["master"].open)
        BY <3>3 DEF MasterJobs
      <3>5. Len(MasterJobs') <= 1
        BY <3>4
      <3>6. pc' = "none" /\ phone' = IF phone = "out" THEN "out" ELSE "waits"
        BY <2>1 DEF InfoWaits, PhoneHears, JobsOK, TypeOK, Answered, TimedOut
      <3> QED
        BY <2>1, <3>3, <3>4, <3>5, <3>6 DEF JobsOK, DataIsPacket, MasterJobs, Side, InfoWaits
    <2>2. CASE ~Answered
      BY <2>2, JobTypes DEF InfoWaits, TypeOK, JobsOK, DataIsPacket, MasterJobs, AsksPhone
    <2> QED
      BY <2>1, <2>2
  <1> QED
    BY <1>2, <1>3

LEMMA TypePhoneLeaves ==
  ASSUME IInv, PhoneLeaves
  PROVE  IInv'
  <1> USE DEF IInv
  <1>1. lib' \in [Side -> Lib]
    BY ClosedType, LibType, JobTypes DEF PhoneLeaves, MasterLib
  <1>2. resets' \subseteq Side
    BY DEF PhoneLeaves, TypeOK, Side
  <1>3. TypeOK'
    BY <1>1, <1>2 DEF PhoneLeaves, TypeOK, netVars, waitVars, PhoneIs
  <1>4. JobsOK' /\ DataIsPacket'
    BY JobTypes DEF PhoneLeaves, TypeOK, JobsOK, DataIsPacket, MasterJobs, waitVars, MasterLib, Closed, PhoneIs
  <1> QED
    BY <1>3, <1>4

\* The job that the master ends is its only one.
LEMMA MasterJobEnds ==
  ASSUME IInv, NEW op, Job("master", op)
  PROVE  /\ MasterJobs # <<>> /\ MasterJobs[1] = op
         /\ pc = "none" /\ phone = "waits"
         /\ lib["master"] \in Lib /\ lib["master"].open
         /\ Done(lib["master"]).jobs = <<>> /\ Done(lib["master"]) \in Lib
         /\ Done(lib["master"]).open /\ Done(lib["master"]).image = lib["master"].image
  <1>1. lib["master"] \in Lib /\ MasterJobs \in Seq(Jobs) /\ MasterJobs # <<>>
        /\ Head(MasterJobs) = op
    BY JobTypes DEF IInv, TypeOK, Job, MasterJobs, Lib
  <1>2. Len(MasterJobs) <= 1 /\ pc = "none" /\ phone = "waits" /\ lib["master"].open
    BY <1>1, JobTypes DEF IInv, JobsOK, MasterJobs
  <1>3. MasterJobs[1] = op /\ Tail(MasterJobs) = <<>>
    BY <1>1, <1>2
  <1>4. Done(lib["master"]) \in Lib
    BY <1>1, DoneType DEF MasterJobs
  <1> QED
    BY <1>1, <1>2, <1>3, <1>4 DEF Done, MasterJobs, Lib

LEMMA TypeMasterWrote ==
  ASSUME IInv, MasterWrote
  PROVE  IInv'
  <1> USE DEF IInv
  <1>1. PICK p \in 1..NumPackets, stored \in 0..NumPackets :
          /\ Job("master", Write(p)) /\ want' = p + 1
          /\ MasterLib(Stored(lib["master"], stored))
    BY Numbers DEF MasterWrote, SPOILT
  <1>2. /\ pc = "none" /\ phone = "waits" /\ lib["master"] \in Lib
        /\ lib["master"].jobs # <<>> /\ Done(lib["master"]).jobs = <<>>
        /\ Done(lib["master"]).open /\ Done(lib["master"]) \in Lib
    BY <1>1, MasterJobEnds DEF MasterJobs
  <1>3. /\ Stored(lib["master"], stored) \in Lib
        /\ Stored(lib["master"], stored).jobs = <<>>
        /\ Stored(lib["master"], stored).open
    BY <1>2, StoredType DEF Stored, Lib
  <1>4. lib' \in [Side -> Lib]
    BY <1>1, <1>3, LibType, JobTypes DEF MasterLib
  <1>5. want' \in 0..NumPackets + 1
    BY <1>1, Numbers
  <1>6. TypeOK'
    BY <1>4, <1>5 DEF MasterWrote, TypeOK, netVars, waitVars, AsksPhone
  <1>7. JobsOK' /\ DataIsPacket'
    BY <1>1, <1>2, <1>3, JobTypes
       DEF MasterWrote, TypeOK, JobsOK, DataIsPacket, MasterJobs, MasterLib, waitVars, AsksPhone, Side
  <1> QED
    BY <1>6, <1>7

LEMMA TypeMasterVerified ==
  ASSUME IInv, MasterVerified
  PROVE  IInv'
  <1> USE DEF IInv
  <1> DEFINE done == Done(lib["master"])
  <1>1. /\ pc = "none" /\ phone = "waits" /\ lib["master"] \in Lib
        /\ done \in Lib /\ done.jobs = <<>> /\ done.open
    BY MasterJobEnds DEF MasterVerified
  <1>2. UNCHANGED <<last, boot, sem, api, first, want, starts, timer, resets, restarted, overlap>>
    BY DEF MasterVerified
  <1> HIDE DEF done
  <1>3. CASE lib["master"].image # Image
    <2>1. lib' = [lib EXCEPT !["master"] = Closed] /\ AsksPhone
          /\ UNCHANGED <<netVars, pc, faults>>
      BY <1>3 DEF MasterVerified, MasterLib
    <2>2. lib' \in [Side -> Lib]
      BY <2>1, ClosedType, LibType, JobTypes
    <2>3. TypeOK'
      BY <1>1, <1>2, <2>1, <2>2 DEF TypeOK, netVars, AsksPhone
    <2>4. JobsOK' /\ DataIsPacket'
      BY <1>1, <1>2, <2>1, JobTypes DEF TypeOK, JobsOK, DataIsPacket, MasterJobs, AsksPhone, Closed
    <2> QED
      BY <2>3, <2>4
  <1>4. CASE lib["master"].image = Image /\ api
    <2>1. lib' = [lib EXCEPT !["master"] = done]
      BY <1>4 DEF MasterVerified, MasterLib, done
    <2>2. PICK ok \in BOOLEAN :
            /\ Send("master", "INFO", 0, ok)
            /\ pc' = IF ok THEN "info" ELSE pc
            /\ IF ok THEN UNCHANGED phone ELSE AsksPhone
      BY <1>4 DEF MasterVerified
    <2>3. NetType
      BY <2>2, SendType, JobTypes DEF NetType, Fits, Command
    <2>4. lib' \in [Side -> Lib]
      BY <1>1, <2>1, LibType, JobTypes
    <2>5. phone' \in {"waits", "sends"} /\ (ok => phone' = "waits")
      BY <1>1, <2>2 DEF AsksPhone
    <2>6. TypeOK'
      BY <1>1, <1>2, <2>2, <2>3, <2>4, <2>5 DEF TypeOK, NetType
    <2>7. JobsOK' /\ DataIsPacket'
      BY <1>1, <1>2, <2>1, <2>2, <2>5, JobTypes DEF TypeOK, JobsOK, DataIsPacket, MasterJobs
    <2> QED
      BY <2>6, <2>7
  <1>5. CASE lib["master"].image = Image /\ ~api
    <2>1. lib' = [lib EXCEPT !["master"] = Given(done, Burn)]
          /\ UNCHANGED <<netVars, pc, phone, faults>>
      BY <1>5 DEF MasterVerified, MasterLib, done
    <2>2. /\ Given(done, Burn) \in Lib /\ Given(done, Burn).open
          /\ Given(done, Burn).jobs = <<Burn>>
      BY <1>1, GivenType, GivenFirst, JobTypes
    <2>3. lib' \in [Side -> Lib]
      BY <2>1, <2>2, LibType, JobTypes
    <2>4. TypeOK'
      BY <1>1, <1>2, <2>1, <2>3 DEF TypeOK, netVars
    <2>5. MasterJobs' = <<Burn>>
      BY <2>1, <2>2, JobTypes DEF TypeOK, MasterJobs
    <2>7. Len(MasterJobs') <= 1
      BY <2>5
    <2>6. JobsOK' /\ DataIsPacket'
      BY <1>1, <1>2, <2>1, <2>2, <2>5, <2>7, JobTypes DEF TypeOK, JobsOK, DataIsPacket, MasterJobs
    <2> QED
      BY <2>4, <2>6
  <1> QED
    BY <1>3, <1>4, <1>5

LEMMA TypeMasterBurnt ==
  ASSUME IInv, MasterBurnt
  PROVE  IInv'
  <1> USE DEF IInv
  <1> DEFINE done == Done(lib["master"])
  <1>1. /\ pc = "none" /\ phone = "waits"
        /\ done \in Lib /\ done.jobs = <<>> /\ done.open
    BY MasterJobEnds DEF MasterBurnt
  <1>2. lib' = [lib EXCEPT !["master"] = done] \/ lib' = [lib EXCEPT !["master"] = Closed]
    BY DEF MasterBurnt, MasterLib, done
  <1> HIDE DEF done
  <1>3. lib' \in [Side -> Lib]
    BY <1>1, <1>2, ClosedType, LibType, JobTypes
  <1>4. boot' \in [Side -> {"old", "new"}] /\ resets' \subseteq Side
    BY DEF MasterBurnt, TypeOK, Side
  <1>5. TypeOK'
    BY <1>3, <1>4 DEF MasterBurnt, TypeOK, netVars, waitVars, phoneVars
  <1>6. JobsOK' /\ DataIsPacket'
    <2>1. lib'["slave"] = lib["slave"] /\ lib'["master"].jobs = <<>>
      BY <1>1, <1>2, JobTypes DEF TypeOK, Closed
    <2>2. UNCHANGED <<pc, phone, want>>
      BY DEF MasterBurnt, waitVars, phoneVars
    <2>3. MasterJobs' = <<>>
      BY <2>1 DEF MasterJobs
    <2>4. Len(MasterJobs') <= 1
      BY <2>3
    <2> QED
      BY <1>1, <2>1, <2>2, <2>3, <2>4 DEF JobsOK, DataIsPacket, Side
  <1> QED
    BY <1>5, <1>6

LEMMA TypeMasterReceives ==
  ASSUME IInv, MasterReceives
  PROVE  IInv'
  <1> USE DEF IInv
  <1>1. PICK q \in Taken(net["master"]) : net' = [net EXCEPT !["master"] = q]
    BY DEF MasterReceives
  <1>2. net["master"] \in Seq(Packet) /\ net["master"] # <<>>
    BY JobTypes DEF MasterReceives, TypeOK
  <1>3. q \in Seq(Packet) /\ Head(net["master"]) \in Packet
    BY <1>1, <1>2, TakenType
  <1>4. net' \in [Side -> Seq(Packet)]
    BY <1>1, <1>3 DEF TypeOK
  <1>5. last' \in [Side -> 0..SnMod - 1]
    BY <1>3 DEF MasterReceives, TypeOK, Packet
  <1>6. sem' \in Nat
    BY DEF MasterReceives, TypeOK
  <1>7. TypeOK'
    BY <1>4, <1>5, <1>6 DEF MasterReceives, TypeOK, phoneVars
  <1>8. JobsOK' /\ DataIsPacket'
    BY DEF MasterReceives, TypeOK, JobsOK, DataIsPacket, MasterJobs, phoneVars
  <1> QED
    BY <1>7, <1>8

\* What the slave does leaves the jobs of the master alone.
LEMMA SlaveJobsOK ==
  ASSUME IInv, NEW l \in Lib, ~l.open => l.jobs = <<>>,
         lib' = [lib EXCEPT !["slave"] = l], UNCHANGED <<waitVars, phoneVars>>
  PROVE  lib' \in [Side -> Lib] /\ JobsOK' /\ DataIsPacket'
  <1>1. lib' \in [Side -> Lib]
    BY LibType, JobTypes DEF IInv
  <1>2. lib'["slave"] = l /\ lib'["master"] = lib["master"]
    BY JobTypes DEF IInv, TypeOK
  <1>3. UNCHANGED <<pc, phone, want>>
    BY DEF waitVars, phoneVars
  <1> QED
    BY <1>1, <1>2, <1>3 DEF IInv, JobsOK, DataIsPacket, MasterJobs, Side

\* The job that the slave ends.
LEMMA SlaveJobEnds ==
  ASSUME IInv, NEW op, Job("slave", op)
  PROVE  /\ lib["slave"] \in Lib /\ lib["slave"].jobs # <<>> /\ lib["slave"].open
         /\ SlaveJobs # <<>> /\ SlaveJobs[1] = op
         /\ Done(lib["slave"]) \in Lib /\ Done(lib["slave"]).open
         /\ Done(lib["slave"]).image = lib["slave"].image
  <1>1. lib["slave"] \in Lib /\ lib["slave"].jobs \in Seq(Jobs) /\ lib["slave"].jobs # <<>>
        /\ Head(lib["slave"].jobs) = op
    BY JobTypes DEF IInv, TypeOK, Job, Lib
  <1>2. lib["slave"].open
    BY <1>1, JobTypes DEF IInv, JobsOK
  <1>3. Done(lib["slave"]) \in Lib
    BY <1>1, DoneType
  <1>4. lib["slave"].jobs[1] = op
    BY <1>1
  <1> QED
    BY <1>1, <1>2, <1>3, <1>4 DEF Done, Lib, SlaveJobs

LEMMA TypeHandles ==
  ASSUME IInv, NEW h \in Packet, NEW q \in Seq(Packet), Handles(h, q),
         UNCHANGED <<link, detached>>
  PROVE  /\ NetType
         /\ \E l \in Lib : /\ lib' = [lib EXCEPT !["slave"] = l]
                           /\ ~l.open => l.jobs = <<>>
  <1> USE DEF IInv
  <1>1. lib["slave"] \in Lib /\ (~lib["slave"].open => lib["slave"].jobs = <<>>)
    BY JobTypes DEF TypeOK, JobsOK
  <1>2. Left(q) \in [Side -> Seq(Packet)]
    BY DEF Left, TypeOK
  <1>3. ASSUME NEW cmd \in Answer, NEW arg \in {SUCC, ERR}, NEW ok \in BOOLEAN,
               Replies(q, cmd, arg, ok)
        PROVE  NetType
    <2>1. Fits(cmd, arg)
      BY <1>3 DEF Fits
    <2> QED
      BY <1>2, <1>3, <2>1, SendFacts, JobTypes DEF Replies, NetType
  <1>4. ASSUME Silent(q)
        PROVE  NetType
    BY <1>2, <1>4 DEF Silent, NetType, TypeOK
  <1>5. ASSUME NEW op \in Jobs, SlaveLib(Given(lib["slave"], op))
        PROVE  \E l \in Lib : /\ lib' = [lib EXCEPT !["slave"] = l]
                              /\ ~l.open => l.jobs = <<>>
    <2>1. Given(lib["slave"], op) \in Lib
      BY <1>1, GivenType
    <2>2. ~Given(lib["slave"], op).open => Given(lib["slave"], op).jobs = <<>>
      BY <1>1 DEF Given, Lib
    <2> QED
      BY <1>5, <2>1, <2>2 DEF SlaveLib
  <1>6. CASE h.cmd = "START" /\ Starts(q)
    <2>1. PICK allowed \in BOOLEAN, ok \in BOOLEAN :
            Replies(q, "START_RSP", IF allowed THEN SUCC ELSE ERR, ok)
      BY <1>6 DEF Starts
    <2>2. NetType
      BY <1>3, <2>1 DEF Answer
    <2>3. lib' = [lib EXCEPT !["slave"] = Opened] /\ Opened.open
      BY <1>6 DEF Starts, SlaveLib, Opened
    <2> QED
      BY <2>2, <2>3, ClosedType
  <1>7. CASE h.cmd = "DATA" /\ SlaveLib(Given(lib["slave"], Write(h.arg))) /\ Silent(q)
    <2>1. h.arg \in 1..NumPackets
      BY <1>7 DEF Packet, Command, Answer
    <2> QED
      BY <1>4, <1>5, <1>7, <2>1, JobTypes
  <1>8. CASE h.cmd = "VERIFY" /\ Verifies(q)
    <2>1. CASE lib["slave"].open
      BY <1>4, <1>5, <1>8, <2>1, JobTypes DEF Verifies
    <2>2. CASE ~lib["slave"].open
      <3>1. lib' = lib
        BY <1>8, <2>2 DEF Verifies
      <3>2. lib' = [lib EXCEPT !["slave"] = lib["slave"]]
        BY <3>1 DEF TypeOK
      <3>3. NetType
        BY <1>3, <1>8, <2>2 DEF Verifies, Answer
      <3> QED
        BY <1>1, <3>2, <3>3
    <2> QED
      BY <2>1, <2>2
  <1>9. CASE h.cmd = "INFO" /\ SlaveLib(Given(lib["slave"], Burn)) /\ Silent(q)
    BY <1>4, <1>5, <1>9, JobTypes
  <1> QED
    BY <1>6, <1>7, <1>8, <1>9 DEF Handles

LEMMA TypeSlaveReceives ==
  ASSUME IInv, SlaveReceives
  PROVE  IInv'
  <1> USE DEF IInv
  <1> DEFINE h == Head(net["slave"])
  <1>1. PICK q \in Taken(net["slave"]) :
          IF Repeats("slave")
            THEN Silent(q) /\ UNCHANGED <<lib, last, timer>>
            ELSE /\ Handles(h, q)
                 /\ last' = [last EXCEPT !["slave"] = h.sn] /\ timer' = TRUE
    BY DEF SlaveReceives
  <1>2. net["slave"] \in Seq(Packet) /\ net["slave"] # <<>>
    BY JobTypes DEF SlaveReceives, TypeOK
  <1>3. q \in Seq(Packet) /\ h \in Packet
    BY <1>1, <1>2, TakenType
  <1>4. UNCHANGED <<link, detached, boot, waitVars, phoneVars, resets, restarted, overlap>>
    BY DEF SlaveReceives
  <1>5. h.sn \in 0..SnMod - 1
    BY <1>3 DEF Packet
  <1> HIDE DEF h
  <1>6. CASE Repeats("slave")
    <2>1. NetType
      BY <1>1, <1>3, <1>4, <1>6 DEF Silent, Left, NetType, TypeOK
    <2>2. UNCHANGED <<lib, last, timer>>
      BY <1>1, <1>6
    <2>3. TypeOK'
      BY <1>4, <2>1, <2>2 DEF TypeOK, NetType, waitVars, phoneVars
    <2>4. JobsOK' /\ DataIsPacket'
      BY <1>4, <2>2 DEF TypeOK, JobsOK, DataIsPacket, MasterJobs, waitVars, phoneVars
    <2> QED
      BY <2>3, <2>4
  <1>7. CASE ~Repeats("slave")
    <2>1. NetType /\ \E l \in Lib : /\ lib' = [lib EXCEPT !["slave"] = l]
                                    /\ ~l.open => l.jobs = <<>>
      BY <1>1, <1>3, <1>4, <1>7, TypeHandles
    <2>2. lib' \in [Side -> Lib] /\ JobsOK' /\ DataIsPacket'
      <3>1. PICK l \in Lib : /\ lib' = [lib EXCEPT !["slave"] = l]
                             /\ ~l.open => l.jobs = <<>>
        BY <2>1
      <3>2. UNCHANGED <<waitVars, phoneVars>>
        BY <1>4
      <3> QED
        BY <3>1, <3>2, SlaveJobsOK
    <2>3. last' \in [Side -> 0..SnMod - 1] /\ timer' \in BOOLEAN
      BY <1>1, <1>5, <1>7 DEF TypeOK
    <2>4. TypeOK'
      BY <1>4, <2>1, <2>2, <2>3 DEF TypeOK, NetType, waitVars, phoneVars
    <2> QED
      BY <2>2, <2>4
  <1> QED
    BY <1>6, <1>7

LEMMA TypeSlaveWrote ==
  ASSUME IInv, SlaveWrote
  PROVE  IInv'
  <1> USE DEF IInv
  <1>1. PICK p \in 1..NumPackets, ok \in BOOLEAN, stored \in 0..NumPackets :
          /\ Job("slave", Write(p)) /\ Send("slave", "DATA_RSP", SUCC, ok)
          /\ SlaveLib(Stored(lib["slave"], stored))
    BY Numbers DEF SlaveWrote, SPOILT
  <1>2. UNCHANGED <<last, boot, waitVars, phoneVars, timer, resets, restarted, overlap>>
    BY DEF SlaveWrote
  <1>3. /\ Stored(lib["slave"], stored) \in Lib
        /\ Stored(lib["slave"], stored).open
    BY <1>1, SlaveJobEnds, StoredType DEF Stored, Lib
  <1>4. lib' \in [Side -> Lib] /\ JobsOK' /\ DataIsPacket'
    BY <1>1, <1>2, <1>3, SlaveJobsOK DEF SlaveLib
  <1>5. NetType
    BY <1>1, SendType, JobTypes DEF NetType, Fits, Answer
  <1>6. TypeOK'
    BY <1>2, <1>4, <1>5 DEF TypeOK, NetType, waitVars, phoneVars
  <1> QED
    BY <1>4, <1>6

LEMMA TypeSlaveVerified ==
  ASSUME IInv, SlaveVerified
  PROVE  IInv'
  <1> USE DEF IInv
  <1>1. PICK ok \in BOOLEAN :
          Send("slave", "VERIFY_RSP", IF lib["slave"].image = Image THEN SUCC ELSE ERR, ok)
    BY DEF SlaveVerified
  <1>2. UNCHANGED <<last, boot, waitVars, phoneVars, timer, resets, restarted, overlap>>
    BY DEF SlaveVerified
  <1>3. Done(lib["slave"]) \in Lib /\ Done(lib["slave"]).open
    BY SlaveJobEnds DEF SlaveVerified
  <1>4. lib' \in [Side -> Lib] /\ JobsOK' /\ DataIsPacket'
    BY <1>2, <1>3, SlaveJobsOK DEF SlaveVerified, SlaveLib
  <1>5. NetType
    BY <1>1, SendType, JobTypes DEF NetType, Fits, Answer
  <1>6. TypeOK'
    BY <1>2, <1>4, <1>5 DEF TypeOK, NetType, waitVars, phoneVars
  <1> QED
    BY <1>4, <1>6

LEMMA TypeSlaveBurnt ==
  ASSUME IInv, SlaveBurnt
  PROVE  IInv'
  <1> USE DEF IInv
  <1>1. UNCHANGED <<last, waitVars, phoneVars, timer, resets, restarted, overlap>>
    BY DEF SlaveBurnt
  <1>2. Done(lib["slave"]) \in Lib /\ Done(lib["slave"]).open
    BY SlaveJobEnds DEF SlaveBurnt
  <1>3. lib' \in [Side -> Lib] /\ JobsOK' /\ DataIsPacket'
    BY <1>1, <1>2, SlaveJobsOK DEF SlaveBurnt, SlaveLib
  <1>4. ASSUME NEW ok \in BOOLEAN, Send("slave", "INFO_RSP", SUCC, ok)
        PROVE  NetType
    BY <1>4, SendType, JobTypes DEF NetType, Fits, Answer
  <1>5. ASSUME sn' = [sn EXCEPT !["slave"] = (@ + 1) % SnMod],
               UNCHANGED <<link, net, detached, faults>>
        PROVE  NetType
    <2>1. sn["slave"] \in 0..SnMod - 1
      BY JobTypes DEF TypeOK
    <2>2. (sn["slave"] + 1) % SnMod \in 0..SnMod - 1
      BY <2>1, NextNumber
    <2> QED
      BY <1>5, <2>2 DEF NetType, TypeOK
  <1>6. NetType /\ boot' \in [Side -> {"old", "new"}]
    BY <1>4, <1>5 DEF SlaveBurnt, TypeOK
  <1>7. TypeOK'
    BY <1>1, <1>3, <1>6 DEF TypeOK, NetType, waitVars, phoneVars
  <1> QED
    BY <1>3, <1>7

LEMMA TypeSlaveTimeout ==
  ASSUME IInv, SlaveTimeout
  PROVE  IInv'
  <1> USE DEF IInv
  <1>1. Closed \in Lib /\ ~Closed.open /\ Closed.jobs = <<>>
    BY ClosedType DEF Closed
  <1>2. lib' \in [Side -> Lib] /\ JobsOK' /\ DataIsPacket'
    BY <1>1, SlaveJobsOK DEF SlaveTimeout, SlaveLib
  <1>3. TypeOK'
    BY <1>2 DEF SlaveTimeout, TypeOK, netVars, waitVars, phoneVars
  <1> QED
    BY <1>2, <1>3

LEMMA TypeLink ==
  ASSUME IInv, Detach \/ Attach
  PROVE  IInv'
  <1> USE DEF IInv
  <1>1. CASE Detach
    <2>1. faults' \in 0..MaxFaults
      BY <1>1, Numbers DEF Detach, Fault, TypeOK
    <2>2. net' \in [Side -> Seq(Packet)]
      BY <1>1 DEF Detach
    <2>3. TypeOK'
      BY <1>1, <2>1, <2>2 DEF Detach, TypeOK, waitVars, phoneVars
    <2>4. JobsOK' /\ DataIsPacket'
      BY <1>1 DEF Detach, TypeOK, JobsOK, DataIsPacket, MasterJobs, waitVars, phoneVars
    <2> QED
      BY <2>3, <2>4
  <1>2. CASE Attach
    <2>1. TypeOK'
      BY <1>2 DEF Attach, TypeOK, waitVars, phoneVars
    <2>2. JobsOK' /\ DataIsPacket'
      BY <1>2 DEF Attach, TypeOK, JobsOK, DataIsPacket, MasterJobs, waitVars, phoneVars
    <2> QED
      BY <2>1, <2>2
  <1> QED
    BY <1>1, <1>2

\* An update task that ends takes its jobs with it.
LEMMA ClosedJobsOK ==
  ASSUME IInv, NEW d \in Side, lib' = [lib EXCEPT ![d] = Closed],
         UNCHANGED <<pc, phone, want>> \/ (pc' = "none" /\ phone' = "out" /\ d = "master")
  PROVE  lib' \in [Side -> Lib] /\ JobsOK' /\ DataIsPacket'
  <1>1. lib' \in [Side -> Lib]
    BY ClosedType, LibType DEF IInv
  <1>2. Closed.jobs = <<>> /\ ~Closed.open
    BY DEF Closed
  <1>3. \A e \in Side : lib'[e] = IF e = d THEN Closed ELSE lib[e]
    BY DEF IInv, TypeOK
  <1>4. MasterJobs' = IF d = "master" THEN <<>> ELSE MasterJobs
    BY <1>2, <1>3, JobTypes DEF MasterJobs
  <1>5. Len(MasterJobs') <= 1
    BY <1>4 DEF IInv, JobsOK
  <1>6. JobsOK' /\ DataIsPacket'
    BY <1>2, <1>3, <1>4, <1>5, JobTypes DEF IInv, JobsOK, DataIsPacket
  <1> QED
    BY <1>1, <1>6

LEMMA TypeTwsOtaStop ==
  ASSUME IInv, NEW d \in Side, TwsOtaStop(d)
  PROVE  IInv'
  <1> USE DEF IInv
  <1>1. UNCHANGED <<pc, phone, want>>
    BY DEF TwsOtaStop, waitVars, phoneVars
  <1>2. lib' \in [Side -> Lib] /\ JobsOK' /\ DataIsPacket'
    BY <1>1, ClosedJobsOK DEF TwsOtaStop
  <1>3. TypeOK'
    BY <1>2 DEF TwsOtaStop, TypeOK, waitVars, phoneVars
  <1> QED
    BY <1>2, <1>3

LEMMA TypeRestart ==
  ASSUME IInv, NEW d \in Side, Restart(d)
  PROVE  IInv'
  <1> USE DEF IInv
  <1>1. UNCHANGED <<pc, phone, want>> \/ (pc' = "none" /\ phone' = "out" /\ d = "master")
    BY DEF Restart, waitVars, PhoneIs
  <1>2. lib' \in [Side -> Lib] /\ JobsOK' /\ DataIsPacket'
    BY <1>1, ClosedJobsOK DEF Restart
  <1>3. faults' \in 0..MaxFaults
    BY Numbers DEF Restart, NoFault, Fault, TypeOK
  <1>4. net' \in [Side -> Seq(Packet)] /\ sn' \in [Side -> 0..SnMod - 1]
        /\ last' \in [Side -> 0..SnMod - 1]
    BY Numbers DEF Restart, TypeOK
  <1>5. detached' \subseteq Side /\ resets' \subseteq Side
    BY DEF Restart, TypeOK, Side, Other
  <1>6. /\ pc' \in {"none", "start", "data", "last", "verify", "info"}
        /\ sem' \in Nat /\ api' \in BOOLEAN /\ first' \in BOOLEAN
        /\ want' \in 0..NumPackets + 1 /\ phone' \in {"out", "waits", "sends"}
        /\ timer' \in BOOLEAN
    <2>1. CASE d = "master"
      <3>1. sem' = 0 /\ want' = want
        BY <2>1 DEF Restart
      <3>2. timer' = timer
        BY <2>1 DEF Restart
      <3>3. pc' = "none" /\ api' = FALSE /\ first' = FALSE /\ phone' = "out"
        BY <2>1 DEF Restart, PhoneIs
      <3> QED
        BY <3>1, <3>2, <3>3 DEF TypeOK
    <2>2. CASE d # "master"
      BY <2>2 DEF Restart, TypeOK, waitVars
    <2> QED
      BY <2>1, <2>2
  <1>7. TypeOK'
    BY <1>2, <1>3, <1>4, <1>5, <1>6 DEF Restart, TypeOK
  <1> QED
    BY <1>2, <1>7

LEMMA TypeInit == Init => IInv
  <1> SUFFICES ASSUME Init PROVE IInv
    OBVIOUS
  <1>1. /\ net \in [Side -> Seq(Packet)]
        /\ sn \in [Side -> 0..SnMod - 1] /\ last \in [Side -> 0..SnMod - 1]
        /\ boot \in [Side -> {"old", "new"}] /\ lib \in [Side -> Lib]
    BY ClosedType, Numbers DEF Init
  <1>3. want \in 0..NumPackets + 1 /\ starts \in 0..MaxStarts /\ faults \in 0..MaxFaults
    BY Numbers DEF Init
  <1>4. TypeOK
    BY <1>1, <1>3 DEF Init, TypeOK
  <1>2. JobsOK /\ DataIsPacket
    BY JobTypes DEF Init, JobsOK, DataIsPacket, MasterJobs, Closed
  <1> QED
    BY <1>2, <1>4 DEF IInv

LEMMA TypeStep == IInv /\ [Next]_vars => IInv'
  <1> SUFFICES ASSUME IInv, [Next]_vars PROVE IInv'
    OBVIOUS
  <1>1. CASE Master
    BY <1>1, TypeStartWaits, TypeDataWaits, TypeLastWaits, TypeVerifyWaits,
       TypeInfoWaits, TypeMasterWrote, TypeMasterVerified, TypeMasterBurnt,
       TypeMasterReceives DEF Master
  <1>2. CASE Slave
    BY <1>2, TypeSlaveReceives, TypeSlaveWrote, TypeSlaveVerified, TypeSlaveBurnt,
       TypeSlaveTimeout DEF Slave
  <1>3. CASE Phone
    BY <1>3, TypeOtaCheck, TypeTransData, TypeCheckCrc, TypePhoneLeaves DEF Phone
  <1>4. CASE Radio
    BY <1>4, TypeLink, TypeTwsOtaStop, TypeRestart DEF Radio
  <1>5. CASE UNCHANGED vars
    BY <1>5 DEF IInv, TypeOK, JobsOK, DataIsPacket, MasterJobs, vars, netVars, waitVars, phoneVars
  <1> QED
    BY <1>1, <1>2, <1>3, <1>4, <1>5 DEF Next

\* Every variable keeps its type, for every size of the image and every bound
\* (all of TwsOta: the handlers of the phone and of the sibling).
THEOREM TypeCorrect == Spec => []TypeOK
  <1>1. IInv => TypeOK
    BY DEF IInv
  <1> QED
    BY TypeInit, TypeStep, <1>1, PTL DEF Spec

----------------------------------------------------------------------------
(* One thing at a time. *)
LEMMA UpToTwo ==
  ASSUME NEW n \in Nat, n <= 2
  PROVE  n = 0 \/ n = 1 \/ n = 2
  OBVIOUS

LEMMA QueueLength ==
  ASSUME NEW q \in Seq(Packet), Shape(q)
  PROVE  /\ q = <<>> <=> Len(q) = 0
         /\ q # <<>> => Len(q) = 1 \/ Len(q) = 2
  <1>1. Len(q) \in Nat /\ Len(q) <= 2
    BY LenProperties DEF Shape
  <1>2. (q = <<>> => Len(q) = 0) /\ (q # <<>> => Len(q) # 0)
    BY EmptySeq
  <1>3. Len(q) = 0 \/ Len(q) = 1 \/ Len(q) = 2
    BY <1>1, UpToTwo, Zenon
  <1> QED
    BY <1>2, <1>3, Zenon

LEMMA AppendToOne ==
  ASSUME NEW S, NEW q \in Seq(S), Len(q) = 1, NEW p \in S
  PROVE  /\ Len(Append(q, p)) = 2 /\ Append(q, p) # <<>>
         /\ Append(q, p)[1] = q[1] /\ Append(q, p)[2] = p
  <1>1. Len(Append(q, p)) = 2
    OBVIOUS
  <1>2. Append(q, p)[1] = q[1]
    OBVIOUS
  <1>3. Append(q, p) # <<>>
    OBVIOUS
  <1>4. Append(q, p)[Len(q) + 1] = p
    BY AppendProperties, ZenonT(60)
  <1>5. Append(q, p)[2] = p
    BY <1>4
  <1> QED
    BY <1>1, <1>2, <1>3, <1>5

LEMMA TailOfTwo ==
  ASSUME NEW S, NEW q \in Seq(S), Len(q) = 2
  PROVE  Len(Tail(q)) = 1 /\ Tail(q)[1] = q[2] /\ Tail(q) # <<>>
  <1>1. Len(Tail(q)) = 1
    OBVIOUS
  <1>2. Tail(q)[1] = q[2]
    BY <1>1
  <1>3. Tail(q) # <<>>
    <2>1. Len(<<>>) # Len(Tail(q))
      BY <1>1
    <2> QED
      BY <2>1, Zenon
  <1> QED
    BY <1>1, <1>2, <1>3

LEMMA QueueGets ==
  ASSUME NEW q \in Seq(Packet), Shape(q), ~Busy(q), NEW p \in Packet, ~p.again
  PROVE  /\ Append(q, p) \in Seq(Packet) /\ Shape(Append(q, p))
         /\ Busy(Append(q, p)) /\ Newest(Append(q, p)) = p
         /\ Append(q, p) # <<>>
         /\ Append(q, p)[1].again => q # <<>> /\ Append(q, p)[1] = q[1]
  <1>1. q # <<>> => Len(q) = 1
    <2>1. ASSUME Len(q) = 2
          PROVE  FALSE
      <3>1. ~q[2].again
        BY <2>1 DEF Shape
      <3>2. q # <<>>
        BY <2>1, EmptySeq
      <3>3. q[Len(q)].again
        BY <3>2 DEF Busy
      <3> QED
        BY <2>1, <3>1, <3>3
    <2> QED
      BY <2>1, QueueLength
  <1>2. CASE q = <<>>
    <2>1. Len(Append(q, p)) = 1 /\ Append(q, p)[1] = p /\ Append(q, p) # <<>>
      BY <1>2
    <2> QED
      BY <2>1 DEF Shape, Busy, Newest
  <1>3. CASE q # <<>>
    <2>1. Len(q) = 1
      BY <1>1, <1>3
    <2>3. q[1].again
      BY <1>3, <2>1 DEF Busy
    <2>2. /\ Len(Append(q, p)) = 2 /\ Append(q, p)[1] = q[1]
          /\ Append(q, p)[2] = p /\ Append(q, p) # <<>>
      BY <2>1, AppendToOne
    <2> QED
      BY <1>3, <2>1, <2>2, <2>3 DEF Shape, Busy, Newest
  <1> QED
    BY <1>2, <1>3

LEMMA QueueLeft ==
  ASSUME NEW q \in Seq(Packet), Shape(q), q # <<>>, NEW r \in Taken(q)
  PROVE  /\ r \in Seq(Packet) /\ Shape(r)
         /\ Head(q) = q[1] /\ q[1] \in Packet
         /\ ~q[1].again => Busy(q) /\ Newest(q) = q[1] /\ ~Busy(r)
         /\ q[1].again => (Busy(r) <=> Busy(q)) /\ (Busy(q) => Newest(r) = Newest(q))
         /\ r # <<>> /\ r[1].again => r[1].sn = q[1].sn
  <1>1. r \in Seq(Packet)
    BY TakenType
  <1>2. Head(q) = q[1] /\ q[1] \in Packet
    OBVIOUS
  <1>3. CASE q[1].again
    <2>1. r = Tail(q)
      BY <1>2, <1>3 DEF Taken
    <2>2. CASE Len(q) = 1
      <3>1. r = <<>>
        BY <2>1, <2>2
      <3> QED
        BY <1>1, <1>2, <1>3, <2>2, <3>1 DEF Shape, Busy
    <2>3. CASE Len(q) = 2
      <3>1. Len(r) = 1 /\ r[1] = q[2] /\ r # <<>>
        BY <2>1, <2>3, TailOfTwo
      <3>2. q[Len(q)] = q[2] /\ r[Len(r)] = r[1]
        BY <2>3, <3>1
      <3> QED
        BY <3>2, <1>1, <1>2, <1>3, <2>3, <3>1 DEF Shape, Busy, Newest
    <2> QED
      BY <2>2, <2>3, QueueLength
  <1>4. CASE ~q[1].again
    <2>6. Len(q) = 1
      BY <1>4, QueueLength DEF Shape
    <2>1. Len(q) = 1 /\ Tail(q) = <<>>
      <3>1. Tail(q) \in Seq(Packet) /\ Len(Tail(q)) = 0
        BY <2>6, HeadTailProperties
      <3> QED
        BY <2>6, <3>1, EmptySeq
    <2> DEFINE m == [Head(q) EXCEPT !.again = TRUE]
    <2>2. r = <<>> \/ r = <<m>> \o Tail(q)
      BY <2>1 DEF Taken
    <2>3. m.again = TRUE /\ m.sn = q[1].sn
      BY <1>2 DEF Packet
    <2> HIDE DEF m
    <2>4. r = <<>> \/ r = <<m>>
      BY <2>1, <2>2
    <2>5. ~Busy(r) /\ Shape(r) /\ (r # <<>> => r[1] = m)
      BY <2>3, <2>4 DEF Busy, Shape
    <2> QED
      BY <1>1, <1>2, <1>4, <2>1, <2>3, <2>5 DEF Busy, Newest
  <1> QED
    BY <1>3, <1>4

LEMMA SidesAre == Side = {"master", "slave"} /\ Other("master") = "slave"
                  /\ Other("slave") = "master"
  BY DEF Side, Other

LEMMA QuietIsIdle ==
  ASSUME TypeOK, Quiet
  PROVE  ~Busy(net["slave"]) /\ ~Busy(net["master"]) /\ SlaveJobs = <<>>
  <1>1. ASSUME NEW d \in Side, net[d] # <<>>
        PROVE  net[d][Len(net[d])].again
    <2>1. net[d] \in Seq(Packet)
      BY DEF TypeOK
    <2>2. Len(net[d]) \in DOMAIN net[d]
      BY <1>1, <2>1
    <2> QED
      BY <2>2 DEF Quiet
  <1> QED
    BY <1>1, SidesAre DEF Quiet, Busy, SlaveJobs

LEMMA QuietIsStill ==
  ASSUME IInv, Quiet, sem = 0
  PROVE  Still
  BY QuietIsIdle DEF Still, IInv

LEMMA EmptyIsFine == Shape(<<>>) /\ ~Busy(<<>>)
  BY DEF Shape, Busy

Queues == [Side -> Seq(Packet)]

\* A send to a side that has nothing new in its queue.
LEMMA SendKeepsFine ==
  ASSUME TypeOK, NEW queues \in Queues, NEW numbers, NEW d \in Side,
         Fine(queues, numbers), ~Busy(queues[Other(d)]),
         NEW cmd, NEW arg, Fits(cmd, arg), NEW ok \in BOOLEAN,
         SendOver(queues, d, cmd, arg, ok)
  PROVE  /\ Fine(net', numbers) /\ net'[d] = queues[d]
         /\ ok => /\ Busy(net'[Other(d)])
                  /\ Newest(net'[Other(d)]).cmd = cmd
                  /\ Newest(net'[Other(d)]).arg = arg
         /\ ~ok => net'[Other(d)] = queues[Other(d)]
  <1>2. PICK p \in Packet :
          /\ ~p.again /\ p.cmd = cmd /\ p.arg = arg
          /\ net' = IF ok THEN [queues EXCEPT ![Other(d)] = Append(@, p)] ELSE queues
    BY SendFacts DEF Queues
  <1>3. Other(d) \in Side /\ Other(d) # d
    BY DEF Other, Side
  <1>4. CASE ~ok
    BY <1>2, <1>4
  <1>5. CASE ok
    <2>1. net'[Other(d)] = Append(queues[Other(d)], p) /\ net'[d] = queues[d]
      BY <1>2, <1>3, <1>5 DEF Queues
    <2>2. queues[Other(d)] \in Seq(Packet) /\ Shape(queues[Other(d)])
      BY <1>3 DEF Fine, Queues
    <2>3. \A e \in Side : e = d \/ e = Other(d)
      BY DEF Other, Side
    <2>4. /\ Shape(net'[Other(d)]) /\ Busy(net'[Other(d)]) /\ Newest(net'[Other(d)]) = p
          /\ net'[Other(d)][1].again => /\ queues[Other(d)] # <<>>
                                        /\ net'[Other(d)][1] = queues[Other(d)][1]
      BY <1>2, <2>1, <2>2, QueueGets
    <2>5. Fine(net', numbers)
      BY <1>3, <2>1, <2>3, <2>4 DEF Fine
    <2> QED
      BY <1>2, <1>5, <2>1, <2>4, <2>5
  <1> QED
    BY <1>4, <1>5

LEMMA SendKeepsQueues ==
  ASSUME IInv, QueuesOK, NEW d \in Side, ~Busy(net[Other(d)]),
         NEW cmd, NEW arg, Fits(cmd, arg), NEW ok \in BOOLEAN,
         Send(d, cmd, arg, ok), last' = last
  PROVE  /\ QueuesOK' /\ net'[d] = net[d]
         /\ ok => /\ Busy(net'[Other(d)])
                  /\ Newest(net'[Other(d)]).cmd = cmd
                  /\ Newest(net'[Other(d)]).arg = arg
         /\ ~ok => net'[Other(d)] = net[Other(d)]
  <1>1. net \in [Side -> Seq(Packet)] /\ SendOver(net, d, cmd, arg, ok) /\ TypeOK
    BY DEF IInv, TypeOK, Send
  <1>2. /\ Fine(net', last) /\ net'[d] = net[d]
        /\ ok => /\ Busy(net'[Other(d)])
                 /\ Newest(net'[Other(d)]).cmd = cmd
                 /\ Newest(net'[Other(d)]).arg = arg
        /\ ~ok => net'[Other(d)] = net[Other(d)]
    <2>1. PICK n : n = last
      OBVIOUS
    <2>2. PICK q : q = net
      OBVIOUS
    <2>3. q \in Queues /\ Fine(q, n) /\ ~Busy(q[Other(d)])
      BY <1>1, <2>1, <2>2 DEF QueuesOK, Queues
    <2>4. SendOver(q, d, cmd, arg, ok)
      BY <1>1, <2>2
    <2>5. /\ Fine(net', n) /\ net'[d] = q[d]
          /\ ok => /\ Busy(net'[Other(d)])
                   /\ Newest(net'[Other(d)]).cmd = cmd
                   /\ Newest(net'[Other(d)]).arg = arg
          /\ ~ok => net'[Other(d)] = q[Other(d)]
      BY <1>1, <2>3, <2>4, SendKeepsFine
    <2> QED
      BY <2>1, <2>2, <2>5
  <1> QED
    BY <1>2 DEF QueuesOK, Fine

\* The receiver takes the packet at the head of its queue, or finds that it
\* has it already.  The queues are then n, and the last numbers are numbers.
Receives(d, r, n, numbers) ==
  /\ net[d] # <<>> /\ r \in Taken(net[d]) /\ n = [net EXCEPT ![d] = r]
  /\ numbers[d] = Head(net[d]).sn /\ numbers[Other(d)] = last[Other(d)]

Received(d, r, n, numbers) ==
  /\ n \in Queues /\ Fine(n, numbers)
  /\ n[d] = r /\ n[Other(d)] = net[Other(d)]
  /\ Busy(r) => Busy(net[d]) /\ Newest(r) = Newest(net[d])
  /\ Repeats(d) \/ (Busy(net[d]) /\ Newest(net[d]) = Head(net[d]) /\ ~Busy(r))

LEMMA Receipt ==
  ASSUME TypeOK, QueuesOK, NEW d \in Side, NEW r, NEW n, NEW numbers,
         Receives(d, r, n, numbers)
  PROVE  Received(d, r, n, numbers)
  <1>0. /\ net[d] # <<>> /\ r \in Taken(net[d]) /\ n = [net EXCEPT ![d] = r]
        /\ numbers[d] = Head(net[d]).sn /\ numbers[Other(d)] = last[Other(d)]
    BY DEF Receives
  <1>1. net \in [Side -> Seq(Packet)] /\ Shape(net[d]) /\ Shape(net[Other(d)])
    BY SidesAre DEF TypeOK, QueuesOK, Fine
  <1>2. /\ r \in Seq(Packet) /\ Shape(r)
        /\ Head(net[d]) = net[d][1] /\ net[d][1] \in Packet
        /\ ~net[d][1].again => Busy(net[d]) /\ Newest(net[d]) = net[d][1] /\ ~Busy(r)
        /\ net[d][1].again => /\ Busy(r) <=> Busy(net[d])
                              /\ Busy(net[d]) => Newest(r) = Newest(net[d])
        /\ r # <<>> /\ r[1].again => r[1].sn = net[d][1].sn
    BY <1>0, <1>1, QueueLeft
  <1>3. Other(d) \in Side /\ Other(d) # d /\ \A e \in Side : e = d \/ e = Other(d)
    BY DEF Other, Side
  <1>5. n \in [Side -> Seq(Packet)] /\ n[d] = r /\ n[Other(d)] = net[Other(d)]
    BY <1>0, <1>1, <1>2, <1>3
  <1>6. Fine(n, numbers)
    <2>1. net[Other(d)] # <<>> /\ net[Other(d)][1].again
             => net[Other(d)][1].sn = last[Other(d)]
      BY <1>3 DEF QueuesOK, Fine
    <2> QED
      BY <1>0, <1>1, <1>2, <1>3, <1>5, <2>1 DEF Fine
  <1>7. net[d][1].again => Repeats(d)
    BY <1>0, <1>2 DEF Repeats, QueuesOK, Fine
  <1>8. Busy(r) => Busy(net[d]) /\ Newest(r) = Newest(net[d])
    BY <1>2
  <1> QED
    BY <1>2, <1>5, <1>6, <1>7, <1>8 DEF Queues, Received

\* The prime of a constant is the constant.
LEMMA Constants ==
  /\ Image' = Image /\ Verify' = Verify /\ Burn' = Burn
  BY DEF Image, Verify, Burn

LEMMA MasterLibIs ==
  ASSUME TypeOK, NEW l, MasterLib(l)
  PROVE  /\ lib'["master"] = l /\ lib'["slave"] = lib["slave"]
         /\ MasterJobs' = l.jobs /\ SlaveJobs' = SlaveJobs
         /\ Whole("slave")' <=> Whole("slave")
  BY DEF TypeOK, MasterLib, Side, MasterJobs, SlaveJobs, Whole, Image

LEMMA SlaveLibIs ==
  ASSUME TypeOK, NEW l, SlaveLib(l)
  PROVE  /\ lib'["slave"] = l /\ lib'["master"] = lib["master"]
         /\ SlaveJobs' = l.jobs /\ MasterJobs' = MasterJobs
         /\ Whole("master")' <=> Whole("master")
  BY DEF TypeOK, SlaveLib, Side, MasterJobs, SlaveJobs, Whole, Image

\* Nothing burns that a step gives no job to burn.
LEMMA BurnKept ==
  ASSUME BurnOK,
         \A d \in Side : lib'[d].jobs # <<>> /\ lib'[d].jobs[1] = Burn
                           => lib'[d].image = Image,
         boot' = boot, api' => api,
         MasterJobs' # <<>> /\ MasterJobs'[1] = Burn
           => MasterJobs # <<>> /\ MasterJobs[1] = Burn
  PROVE  BurnOK'
  BY Constants DEF BurnOK

LEMMA NoJobs ==
  /\ Closed.jobs = <<>> /\ Opened.jobs = <<>> /\ ~Closed.open /\ Opened.open
  BY DEF Closed, Opened

LEMMA KindsOfJob ==
  /\ Verify # Burn
  /\ \A p : Write(p) # Verify /\ Write(p) # Burn
  BY DEF Verify, Burn, Write

\* What a step does when it leaves the queues, the semaphore and the slave
\* alone: the master may go on.
LEMMA QueuesSame ==
  ASSUME QueuesOK, net' = net, last' = last
  PROVE  /\ QueuesOK'
         /\ \A d \in Side : (Busy(net[d]))' <=> Busy(net[d])
         /\ \A d \in Side : (Newest(net[d]))' = Newest(net[d])
  BY DEF QueuesOK, Fine, Shape, Busy, Newest

LEMMA InvOtaCheck ==
  ASSUME Prompt, IInv, PInv, OtaCheck, ~overlap'
  PROVE  PInv'
  <1>1. /\ TypeOK /\ pc = "none" /\ Quiet /\ boot["master"] = "old"
        /\ last' = last /\ boot' = boot
    BY DEF OtaCheck, IInv
  <1>2. /\ ~Busy(net["slave"]) /\ ~Busy(net["master"]) /\ SlaveJobs = <<>>
    BY <1>1, QuietIsIdle
  <1>3. CASE NoRoom
    <2>1. /\ MasterLib(Closed) /\ phone' = "out" /\ net' = net /\ pc' = pc
          /\ sem' = sem /\ api' = api /\ first' = first
      BY <1>3 DEF NoRoom, PhoneIs, netVars, waitVars
    <2>2. MasterJobs' = <<>> /\ SlaveJobs' = <<>>
      BY <1>1, <1>2, <2>1, MasterLibIs, NoJobs
    <2>3. QueuesOK' /\ ~(Busy(net["slave"]))' /\ ~(Busy(net["master"]))'
      BY <1>1, <1>2, <2>1, QueuesSame, SidesAre DEF PInv
    <2>4. OneAtATime'
      BY <2>1, <2>2, <2>3 DEF PInv, OneAtATime
    <2>5. WaitsOK' /\ VerifyOK' /\ VerifiedOK' /\ InfoOK'
      BY <1>1, <2>1, <2>2, <2>3 DEF PInv, WaitsOK, VerifyOK, VerifiedOK, InfoOK
    <2>6. BurnOK'
      BY <1>1, <2>1, <2>2, SidesAre DEF PInv, BurnOK, MasterJobs, SlaveJobs
    <2> QED
      BY <2>3, <2>4, <2>5, <2>6 DEF PInv
  <1>4. CASE Alone
    <2>1. /\ MasterLib(Opened) /\ want' = 1 /\ net' = net /\ pc' = pc
          /\ sem' = sem /\ api' = FALSE
      BY <1>4 DEF Alone, PhoneBegins, netVars
    <2>2. MasterJobs' = <<>> /\ SlaveJobs' = <<>>
      BY <1>1, <1>2, <2>1, MasterLibIs, NoJobs
    <2>3. QueuesOK' /\ ~(Busy(net["slave"]))' /\ ~(Busy(net["master"]))'
      BY <1>1, <1>2, <2>1, QueuesSame, SidesAre DEF PInv
    <2>4. OneAtATime'
      BY <2>1, <2>2, <2>3 DEF PInv, OneAtATime
    <2>5. WaitsOK' /\ VerifyOK' /\ VerifiedOK' /\ InfoOK'
      BY <1>1, <2>1, <2>2, <2>3 DEF PInv, WaitsOK, VerifyOK, VerifiedOK, InfoOK
    <2>6. BurnOK'
      BY <1>1, <2>1, <2>2, SidesAre DEF PInv, BurnOK, MasterJobs, SlaveJobs
    <2> QED
      BY <2>3, <2>4, <2>5, <2>6 DEF PInv
  <1>5. CASE TwsOtaOpen
    <2>0. PICK ok \in BOOLEAN :
            /\ Send("master", "START", 0, ok)
            /\ pc' = IF ok THEN "start" ELSE "none"
            /\ MasterLib(IF ok THEN Opened ELSE Closed)
      BY <1>5 DEF TwsOtaOpen
    <2>1. api' = TRUE /\ sem' = 0 /\ phone' = "out" /\ first' = TRUE
      BY <1>5 DEF TwsOtaOpen, PhoneIs
    <2>2. MasterJobs' = <<>> /\ SlaveJobs' = <<>>
      BY <1>1, <1>2, <2>0, MasterLibIs, NoJobs
    <2>3. /\ QueuesOK' /\ ~(Busy(net["master"]))'
          /\ (Busy(net["slave"]))' => (Newest(net["slave"]))'.cmd = "START"
      <3>1. Fits("START", 0) /\ "master" \in Side
        BY DEF Fits, Command, Side
      <3>2. /\ QueuesOK' /\ net'["master"] = net["master"]
            /\ ok => Busy(net'["slave"]) /\ Newest(net'["slave"]).cmd = "START"
            /\ ~ok => net'["slave"] = net["slave"]
        BY <1>1, <1>2, <2>0, <3>1, SidesAre, SendKeepsQueues DEF PInv
      <3> QED
        BY <1>2, <3>2
    <2>4. OneAtATime'
      BY <2>1, <2>2, <2>3 DEF OneAtATime
    <2>5. WaitsOK' /\ VerifyOK' /\ VerifiedOK' /\ InfoOK'
      BY <2>0, <2>1, <2>2, <2>3 DEF WaitsOK, VerifyOK, VerifiedOK, InfoOK
    <2>6. BurnOK'
      BY <1>1, <2>1, <2>2, SidesAre DEF PInv, BurnOK, MasterJobs, SlaveJobs
    <2> QED
      BY <2>3, <2>4, <2>5, <2>6 DEF PInv
  <1> QED
    BY <1>3, <1>4, <1>5 DEF OtaCheck

LEMMA InvStartWaits ==
  ASSUME Prompt, IInv, PInv, StartWaits
  PROVE  PInv'
  <1>1. /\ TypeOK /\ pc = "start" /\ pc' = "none" /\ net' = net /\ last' = last
        /\ boot' = boot /\ api' = api /\ first' = first
        /\ MasterJobs = <<>>
    BY DEF StartWaits, IInv, JobsOK, netVars
  <1>2. /\ ~Busy(net["slave"]) /\ ~Busy(net["master"]) /\ SlaveJobs = <<>>
        /\ sem' = 0 /\ SlaveJobs' = SlaveJobs /\ MasterJobs' = <<>>
        /\ phone' # "out" /\ first => want' = 1
    <2>1. CASE Answered /\ sem' = sem - 1 /\ PhoneBegins /\ UNCHANGED lib
      <3>1. sem \in Nat /\ sem <= 1 /\ sem > 0
        BY <1>1, <2>1 DEF Answered, TypeOK, PInv, OneAtATime
      <3>2. sem' = 0 /\ sem # 0
        BY <2>1, <3>1
      <3>3. want' = 1 /\ lib' = lib
        BY <2>1 DEF PhoneBegins
      <3> QED
        BY <1>1, <3>2, <3>3 DEF PInv, OneAtATime, Still, MasterJobs, SlaveJobs
    <2>2. CASE TimedOut /\ MasterLib(Closed) /\ UNCHANGED <<sem, want, phone>>
      <3>1. Quiet /\ sem = 0
        BY <2>2 DEF TimedOut
      <3>2. MasterJobs' = <<>> /\ SlaveJobs' = SlaveJobs
        BY <1>1, <2>2, MasterLibIs, NoJobs
      <3> QED
        BY <2>2, <3>1, <3>2, QuietIsStill DEF PInv, WaitsOK, Still
    <2> QED
      BY <2>1, <2>2 DEF StartWaits
  <1>3. QueuesOK' /\ ~(Busy(net["slave"]))' /\ ~(Busy(net["master"]))'
    BY <1>1, <1>2, QueuesSame, SidesAre DEF PInv
  <1>4. SlaveJobs' = <<>>
    BY <1>2
  <1>5. OneAtATime' /\ Still'
    BY <1>2, <1>3, <1>4 DEF OneAtATime, Still
  <1>6. WaitsOK' /\ VerifyOK' /\ VerifiedOK' /\ InfoOK'
    BY <1>1, <1>2, <1>3, <1>4, <1>5 DEF WaitsOK, VerifyOK, VerifiedOK, InfoOK
  <1>7. BurnOK'
    BY <1>1, <1>2, <1>4, SidesAre DEF PInv, BurnOK, MasterJobs, SlaveJobs
  <1> QED
    BY <1>3, <1>5, <1>6, <1>7 DEF PInv

\* A job for the master, which has none.
LEMMA MasterGets ==
  ASSUME TypeOK, MasterJobs = <<>>, NEW op \in Jobs,
         MasterLib(Given(lib["master"], op))
  PROVE  /\ SlaveJobs' = SlaveJobs /\ lib'["slave"] = lib["slave"]
         /\ Whole("slave")' <=> Whole("slave")
         /\ MasterJobs' # <<>> => MasterJobs'[1] = op /\ lib["master"].open
         /\ lib'["master"].image = lib["master"].image
         /\ lib'["master"].jobs = MasterJobs'
  <1>1. /\ lib'["master"] = Given(lib["master"], op)
        /\ MasterJobs' = Given(lib["master"], op).jobs
        /\ SlaveJobs' = SlaveJobs /\ lib'["slave"] = lib["slave"]
        /\ Whole("slave")' <=> Whole("slave")
    BY MasterLibIs
  <1>2. lib["master"] \in Lib /\ lib["master"].jobs = <<>>
    BY DEF TypeOK, MasterJobs, Side
  <1>3. /\ Given(lib["master"], op).jobs = IF lib["master"].open THEN <<op>> ELSE <<>>
        /\ Given(lib["master"], op).image = lib["master"].image
    BY <1>2, GivenFirst
  <1>4. MasterJobs' # <<>> => MasterJobs'[1] = op /\ lib["master"].open
    BY <1>1, <1>3
  <1> QED
    BY <1>1, <1>3, <1>4

\* A packet is passed on when nothing else is under way.
LEMMA InvWritePacket ==
  ASSUME IInv, PInv, WritePacket, pc' = "none", MasterJobs = <<>>,
         want \in 1..NumPackets, api => Still \/ sem > 0,
         Busy(net["slave"]) => Newest(net["slave"]).cmd # "INFO"
  PROVE  PInv'
  <1>1. /\ TypeOK /\ MasterLib(Given(lib["master"], Write(want)))
        /\ first' = FALSE /\ last' = last /\ boot' = boot /\ api' = api
    BY DEF WritePacket, IInv
  <1>2. /\ SlaveJobs' = SlaveJobs
        /\ MasterJobs' # <<>> => MasterJobs'[1] = Write(want)
        /\ lib'["slave"] = lib["slave"]
    BY <1>1, MasterGets, JobTypes
  <1>3. CASE ~api
    <2>1. net' = net /\ sem' = sem
      BY <1>3 DEF WritePacket, netVars
    <2>2. /\ QueuesOK'
          /\ (Busy(net["slave"]))' <=> Busy(net["slave"])
          /\ (Busy(net["master"]))' <=> Busy(net["master"])
          /\ (Newest(net["slave"]))' = Newest(net["slave"])
      BY <1>1, <2>1, QueuesSame, SidesAre DEF PInv
    <2>3. OneAtATime'
      BY <1>2, <2>1, <2>2 DEF PInv, OneAtATime
    <2>4. WaitsOK' /\ VerifyOK' /\ VerifiedOK' /\ InfoOK'
      BY <1>1, <1>2, <1>3, <2>2 DEF WaitsOK, VerifyOK, VerifiedOK, InfoOK
    <2>5. BurnOK'
      BY <1>1, <1>2, <1>3, SidesAre, KindsOfJob, Constants DEF PInv, BurnOK, MasterJobs
    <2> QED
      BY <2>2, <2>3, <2>4, <2>5 DEF PInv
  <1>4. CASE api
    <2>0. PICK ok \in BOOLEAN : Send("master", "DATA", want, ok)
      BY <1>4 DEF WritePacket
    <2>1. sem' = 0
      BY <1>4 DEF WritePacket
    <2>2. ~Busy(net["slave"]) /\ ~Busy(net["master"]) /\ SlaveJobs = <<>>
      <3>1. CASE Still
        BY <3>1 DEF Still
      <3>2. CASE sem > 0
        <4>1. sem # 0
          BY <3>2, <1>1 DEF TypeOK
        <4> QED
          BY <4>1 DEF PInv, OneAtATime
      <3> QED
        BY <1>4, <3>1, <3>2
    <2>3. /\ QueuesOK' /\ ~(Busy(net["master"]))'
          /\ (Busy(net["slave"]))' => (Newest(net["slave"]))'.cmd = "DATA"
      <3>1. Fits("DATA", want) /\ "master" \in Side
        BY DEF Fits, Side
      <3>2. /\ QueuesOK' /\ net'["master"] = net["master"]
            /\ ok => Busy(net'["slave"]) /\ Newest(net'["slave"]).cmd = "DATA"
            /\ ~ok => net'["slave"] = net["slave"]
        BY <1>1, <2>2, <2>0, <3>1, SidesAre, SendKeepsQueues DEF PInv
      <3> QED
        BY <2>2, <3>2
    <2>4. OneAtATime'
      BY <1>2, <2>1, <2>2, <2>3 DEF OneAtATime
    <2>5. WaitsOK' /\ VerifyOK' /\ InfoOK'
      BY <1>1, <2>1, <2>3 DEF WaitsOK, VerifyOK, InfoOK
    <2>6. VerifiedOK'
      BY <1>2, KindsOfJob, Constants DEF VerifiedOK
    <2>7. BurnOK'
      BY <1>1, <1>2, <2>2, SidesAre, KindsOfJob, Constants
      DEF PInv, BurnOK, MasterJobs, SlaveJobs
    <2> QED
      BY <2>3, <2>4, <2>5, <2>6, <2>7 DEF PInv
  <1> QED
    BY <1>3, <1>4

LEMMA InvTransData ==
  ASSUME Prompt, IInv, PInv, TransData
  PROVE  PInv'
  <1>1. /\ pc = "none" /\ phone = "sends" /\ want \in 1..NumPackets
        /\ MasterJobs = <<>>
    BY DEF TransData, IInv, JobsOK
  <1>2. CASE api /\ ~first
    <2>1. /\ pc' = "data" /\ net' = net /\ last' = last /\ boot' = boot /\ lib' = lib
          /\ sem' = sem /\ api' = api /\ first' = first /\ want' = want
          /\ phone' = phone
      BY <1>2 DEF TransData, netVars, phoneVars
    <2>2. /\ QueuesOK'
          /\ (Busy(net["slave"]))' <=> Busy(net["slave"])
          /\ (Busy(net["master"]))' <=> Busy(net["master"])
          /\ (Newest(net["slave"]))' = Newest(net["slave"])
      BY <2>1, QueuesSame, SidesAre DEF PInv
    <2>3. OneAtATime' /\ BurnOK'
      BY <2>1, <2>2, Constants DEF PInv, OneAtATime, BurnOK, MasterJobs, SlaveJobs
    <2>4. WaitsOK' /\ VerifyOK' /\ VerifiedOK' /\ InfoOK'
      BY <1>1, <1>2, <2>1, <2>2
      DEF PInv, WaitsOK, VerifyOK, VerifiedOK, InfoOK, MasterJobs
    <2> QED
      BY <2>2, <2>3, <2>4 DEF PInv
  <1>3. CASE ~(api /\ ~first)
    <2>1. WritePacket /\ pc' = "none"
      BY <1>1, <1>3 DEF TransData
    <2>2. api => Still
      BY <1>1, <1>3 DEF PInv, WaitsOK
    <2>3. Busy(net["slave"]) => Newest(net["slave"]).cmd # "INFO"
      BY <1>1 DEF PInv, InfoOK
    <2> QED
      BY <1>1, <2>1, <2>2, <2>3, InvWritePacket
  <1> QED
    BY <1>2, <1>3

\* The master stops waiting, and has done nothing.
LEMMA InvGivesUp ==
  ASSUME IInv, PInv, pc' = "none", Still, MasterJobs = <<>>,
         net' = net, last' = last, boot' = boot, lib' = lib, sem' = sem, api' = api,
         first' = first, want' = want, phone' # "out" => phone # "out"
  PROVE  PInv'
  <1>1. QueuesOK' /\ ~(Busy(net["slave"]))' /\ ~(Busy(net["master"]))'
    BY QueuesSame, SidesAre DEF PInv, Still
  <1>2. MasterJobs' = <<>> /\ SlaveJobs' = SlaveJobs
    BY DEF MasterJobs, SlaveJobs
  <1>3. Still' /\ OneAtATime' /\ BurnOK'
    BY <1>1, <1>2, Constants
    DEF PInv, Still, OneAtATime, BurnOK, MasterJobs, SlaveJobs
  <1>4. VerifyOK' /\ VerifiedOK' /\ InfoOK'
    BY <1>1, <1>2 DEF PInv, VerifyOK, VerifiedOK, InfoOK
  <1>5. phone' # "out" /\ first => want = 1
    BY DEF PInv, WaitsOK
  <1>6. WaitsOK'
    BY <1>2, <1>3, <1>5 DEF PInv, WaitsOK
  <1> QED
    BY <1>1, <1>3, <1>4, <1>6 DEF PInv

LEMMA InvDataWaits ==
  ASSUME Prompt, IInv, PInv, DataWaits
  PROVE  PInv'
  <1>1. /\ pc = "data" /\ pc' = "none" /\ MasterJobs = <<>> /\ ~first /\ api
        /\ want \in 1..NumPackets
    BY DEF DataWaits, IInv, JobsOK, DataIsPacket, PInv, WaitsOK
  <1>2. CASE Answered /\ WritePacket
    <2>1. sem > 0
      BY <1>2 DEF Answered
    <2>2. Busy(net["slave"]) => Newest(net["slave"]).cmd # "INFO"
      BY <1>1 DEF PInv, InfoOK
    <2> QED
      BY <1>1, <1>2, <2>1, <2>2, InvWritePacket
  <1>3. CASE ~(Answered /\ WritePacket)
    <2>1. /\ Quiet /\ sem = 0 /\ net' = net /\ last' = last /\ boot' = boot
          /\ lib' = lib /\ sem' = sem /\ api' = api /\ first' = first
          /\ want' = want /\ phone' = phone
      BY <1>3 DEF DataWaits, TimedOut, netVars, phoneVars
    <2>2. Still
      BY <2>1, QuietIsStill
    <2> QED
      BY <1>1, <2>1, <2>2, InvGivesUp
  <1> QED
    BY <1>2, <1>3

LEMMA InvCheckCrc ==
  ASSUME Prompt, IInv, PInv, CheckCrc
  PROVE  PInv'
  <1>1. /\ TypeOK /\ pc = "none" /\ phone = "sends" /\ want = NumPackets + 1
        /\ net' = net /\ last' = last /\ boot' = boot /\ sem' = sem /\ api' = api
        /\ first' = first /\ want' = want /\ MasterJobs = <<>>
    BY DEF CheckCrc, IInv, JobsOK, netVars
  <1>2. ~first
    <2>1. NumPackets + 1 # 1
      BY Numbers
    <2> QED
      BY <1>1, <2>1 DEF PInv, WaitsOK
  <1>3. /\ QueuesOK'
        /\ (Busy(net["slave"]))' <=> Busy(net["slave"])
        /\ (Busy(net["master"]))' <=> Busy(net["master"])
        /\ (Newest(net["slave"]))' = Newest(net["slave"])
    BY <1>1, QueuesSame, SidesAre DEF PInv
  <1>4. CASE api
    <2>1. pc' = "last" /\ lib' = lib
      BY <1>4 DEF CheckCrc
    <2>2. OneAtATime' /\ BurnOK'
      BY <1>1, <1>3, <2>1, Constants DEF PInv, OneAtATime, BurnOK, MasterJobs, SlaveJobs
    <2>3. WaitsOK' /\ VerifyOK' /\ VerifiedOK' /\ InfoOK'
      BY <1>1, <1>2, <1>3, <1>4, <2>1
      DEF PInv, WaitsOK, VerifyOK, VerifiedOK, InfoOK, MasterJobs
    <2> QED
      BY <1>3, <2>2, <2>3 DEF PInv
  <1>5. CASE ~api
    <2>1. MasterLib(Given(lib["master"], Verify)) /\ pc' = "none"
      BY <1>1, <1>5 DEF CheckCrc
    <2>2. SlaveJobs' = SlaveJobs /\ lib'["slave"] = lib["slave"]
      BY <1>1, <2>1, MasterGets, JobTypes
    <2>3. MasterJobs' # <<>> => MasterJobs'[1] = Verify
      BY <1>1, <2>1, MasterGets, JobTypes
    <2>4. OneAtATime'
      BY <1>1, <1>3, <2>2 DEF PInv, OneAtATime
    <2>5. WaitsOK' /\ VerifyOK' /\ VerifiedOK' /\ InfoOK'
      BY <1>1, <1>2, <1>3, <1>5, <2>1
      DEF PInv, WaitsOK, VerifyOK, VerifiedOK, InfoOK
    <2>6. BurnOK'
      BY <1>1, <1>5, <2>2, <2>3, SidesAre, KindsOfJob, Constants
      DEF PInv, BurnOK, MasterJobs
    <2> QED
      BY <1>3, <2>4, <2>5, <2>6 DEF PInv
  <1> QED
    BY <1>4, <1>5

\* With a token on the semaphore nothing is on its way and the slave is idle.
LEMMA TokenIsAll ==
  ASSUME IInv, PInv, sem > 0
  PROVE  /\ ~Busy(net["slave"]) /\ ~Busy(net["master"]) /\ SlaveJobs = <<>>
         /\ sem - 1 = 0
  <1>1. sem \in Nat /\ sem <= 1
    BY DEF IInv, TypeOK, PInv, OneAtATime
  <1>2. sem # 0 /\ sem - 1 = 0
    BY <1>1
  <1> QED
    BY <1>2 DEF PInv, OneAtATime

LEMMA InvLastWaits ==
  ASSUME Prompt, IInv, PInv, LastWaits
  PROVE  PInv'
  <1>1. /\ TypeOK /\ pc = "last" /\ MasterJobs = <<>> /\ ~first /\ api
        /\ last' = last /\ boot' = boot /\ lib' = lib /\ api' = api
        /\ first' = first /\ want' = want /\ phone' = phone
    BY DEF LastWaits, IInv, JobsOK, PInv, WaitsOK, phoneVars
  <1>2. CASE /\ Answered /\ sem' = 0
             /\ \E ok \in BOOLEAN : /\ Send("master", "VERIFY", 0, ok)
                                    /\ pc' = IF ok THEN "verify" ELSE "none"
    <2>0. PICK ok \in BOOLEAN : /\ Send("master", "VERIFY", 0, ok)
                                /\ pc' = IF ok THEN "verify" ELSE "none"
      BY <1>2
    <2>1. sem' = 0 /\ SlaveJobs' = SlaveJobs /\ MasterJobs' = <<>>
      BY <1>1, <1>2 DEF MasterJobs, SlaveJobs
    <2>2. ~Busy(net["slave"]) /\ ~Busy(net["master"]) /\ SlaveJobs = <<>>
      BY <1>2, TokenIsAll DEF Answered
    <2>3. /\ QueuesOK' /\ ~(Busy(net["master"]))'
          /\ (Busy(net["slave"]))' => (Newest(net["slave"]))'.cmd = "VERIFY"
      <3>1. Fits("VERIFY", 0) /\ "master" \in Side
        BY DEF Fits, Command, Side
      <3>2. /\ QueuesOK' /\ net'["master"] = net["master"]
            /\ ok => Busy(net'["slave"]) /\ Newest(net'["slave"]).cmd = "VERIFY"
            /\ ~ok => net'["slave"] = net["slave"]
        BY <1>1, <2>2, <2>0, <3>1, SidesAre, SendKeepsQueues DEF PInv
      <3> QED
        BY <2>2, <3>2
    <2>4. OneAtATime'
      BY <2>1, <2>2, <2>3 DEF OneAtATime
    <2>5. WaitsOK' /\ VerifyOK' /\ InfoOK' /\ VerifiedOK'
      BY <1>1, <2>0, <2>1, <2>2, <2>3 DEF WaitsOK, VerifyOK, InfoOK, VerifiedOK
    <2>6. BurnOK'
      BY <1>1, <2>1, Constants DEF PInv, BurnOK, MasterJobs
    <2> QED
      BY <2>3, <2>4, <2>5, <2>6 DEF PInv
  <1>3. CASE TimedOut /\ pc' = "none" /\ UNCHANGED <<netVars, sem, faults>>
    <2>1. Quiet /\ sem = 0 /\ net' = net /\ sem' = sem
      BY <1>3 DEF TimedOut, netVars
    <2> QED
      BY <1>1, <1>3, <2>1, QuietIsStill, InvGivesUp
  <1> QED
    BY <1>2, <1>3 DEF LastWaits

LEMMA InvVerifyWaits ==
  ASSUME Prompt, IInv, PInv, VerifyWaits
  PROVE  PInv'
  <1>1. /\ TypeOK /\ pc = "verify" /\ pc' = "none" /\ MasterJobs = <<>> /\ ~first
        /\ api /\ net' = net /\ last' = last /\ boot' = boot /\ api' = api
        /\ first' = first /\ want' = want
    BY DEF VerifyWaits, IInv, JobsOK, PInv, WaitsOK, netVars
  <1>2. CASE /\ Answered /\ sem' = sem - 1
             /\ MasterLib(Given(lib["master"], Verify)) /\ PhoneHears
    <2>1. /\ ~Busy(net["slave"]) /\ ~Busy(net["master"]) /\ SlaveJobs = <<>>
          /\ sem' = 0 /\ sem > 0
      BY <1>2, TokenIsAll DEF Answered
    <2>2. /\ SlaveJobs' = SlaveJobs /\ lib'["slave"] = lib["slave"]
          /\ Whole("slave")' <=> Whole("slave")
      BY <1>1, <1>2, MasterGets, JobTypes
    <2>3. MasterJobs' # <<>> => MasterJobs'[1] = Verify
      BY <1>1, <1>2, MasterGets, JobTypes
    <2>4. QueuesOK' /\ ~(Busy(net["slave"]))' /\ ~(Busy(net["master"]))'
      BY <1>1, <2>1, QueuesSame, SidesAre DEF PInv
    <2>5. OneAtATime' /\ Still'
      BY <2>1, <2>2, <2>4 DEF OneAtATime, Still
    <2>6. Whole("slave")'
      BY <1>1, <2>1, <2>2 DEF PInv, VerifyOK
    <2>7. WaitsOK' /\ VerifyOK' /\ InfoOK' /\ VerifiedOK'
      BY <1>1, <2>4, <2>5, <2>6 DEF WaitsOK, VerifyOK, InfoOK, VerifiedOK
    <2>8. BurnOK'
      BY <1>1, <2>1, <2>2, <2>3, SidesAre, KindsOfJob, Constants
      DEF PInv, BurnOK, MasterJobs
    <2> QED
      BY <2>4, <2>5, <2>7, <2>8 DEF PInv
  <1>3. CASE TimedOut /\ UNCHANGED <<sem, lib, phone>>
    <2>1. Quiet /\ sem = 0
      BY <1>3 DEF TimedOut
    <2> QED
      BY <1>1, <1>3, <2>1, QuietIsStill, InvGivesUp
  <1> QED
    BY <1>2, <1>3 DEF VerifyWaits

LEMMA InvInfoWaits ==
  ASSUME Prompt, IInv, PInv, InfoWaits
  PROVE  PInv'
  <1>1. /\ TypeOK /\ pc = "info" /\ pc' = "none" /\ MasterJobs = <<>> /\ ~first
        /\ api /\ net' = net /\ last' = last /\ boot' = boot /\ api' = api
        /\ first' = first /\ want' = want
    BY DEF InfoWaits, IInv, JobsOK, PInv, WaitsOK, netVars
  <1>2. CASE /\ Answered /\ sem' = sem - 1
             /\ MasterLib(Given(lib["master"], Burn)) /\ UNCHANGED phone
    <2>1. /\ ~Busy(net["slave"]) /\ ~Busy(net["master"]) /\ SlaveJobs = <<>>
          /\ sem' = 0 /\ sem > 0
      BY <1>2, TokenIsAll DEF Answered
    <2>2. SlaveJobs' = SlaveJobs /\ lib'["slave"] = lib["slave"]
      BY <1>1, <1>2, MasterGets, JobTypes
    <2>3. /\ MasterJobs' # <<>> => MasterJobs'[1] = Burn /\ lib["master"].open
          /\ lib'["master"].image = lib["master"].image
          /\ lib'["master"].jobs = MasterJobs'
      BY <1>1, <1>2, MasterGets, JobTypes
    <2>4. QueuesOK' /\ ~(Busy(net["slave"]))' /\ ~(Busy(net["master"]))'
      BY <1>1, <2>1, QueuesSame, SidesAre DEF PInv
    <2>5. OneAtATime' /\ Still'
      BY <2>1, <2>2, <2>4 DEF OneAtATime, Still
    <2>6. /\ boot["slave"] = "new"
          /\ lib["master"].open => lib["master"].image = Image
      BY <1>1, <2>1 DEF PInv, InfoOK, Whole
    <2>7. WaitsOK' /\ VerifyOK' /\ InfoOK'
      BY <1>1, <2>4, <2>5 DEF WaitsOK, VerifyOK, InfoOK
    <2>8. VerifiedOK'
      BY <2>3, KindsOfJob, Constants DEF VerifiedOK
    <2>9. BurnOK'
      BY <1>1, <2>1, <2>2, <2>3, <2>6, SidesAre, Constants
      DEF BurnOK, MasterJobs, SlaveJobs
    <2> QED
      BY <2>4, <2>5, <2>7, <2>8, <2>9 DEF PInv
  <1>3. CASE TimedOut /\ AsksPhone /\ UNCHANGED <<sem, lib>>
    <2>1. Quiet /\ sem = 0 /\ (phone' # "out" => phone # "out")
      BY <1>3 DEF TimedOut, AsksPhone
    <2> QED
      BY <1>1, <1>3, <2>1, QuietIsStill, InvGivesUp
  <1> QED
    BY <1>2, <1>3 DEF InfoWaits

\* The update task of the master ends, or comes to the end of its job.
LEMMA InvMasterEnds ==
  ASSUME IInv, PInv, MasterJobs' = <<>>, lib'["slave"] = lib["slave"],
         lib'["master"].image = lib["master"].image \/ ~lib'["master"].open
           \/ pc = "none",
         lib'["master"].open => lib["master"].open,
         net' = net, last' = last, sem' = sem, pc' = pc, api' = api, first' = first,
         boot'["slave"] = boot["slave"],
         boot'["master"] = boot["master"] \/ (api => boot["slave"] = "new"),
         phone' # "out" /\ first => want' = 1,
         pc = "none" /\ api /\ first /\ phone' # "out" => Still
  PROVE  PInv'
  <1>1. /\ QueuesOK'
        /\ (Busy(net["slave"]))' <=> Busy(net["slave"])
        /\ (Busy(net["master"]))' <=> Busy(net["master"])
        /\ (Newest(net["slave"]))' = Newest(net["slave"])
        /\ (Newest(net["master"]))' = Newest(net["master"])
    BY QueuesSame, SidesAre DEF PInv
  <1>2. /\ SlaveJobs' = SlaveJobs
        /\ Whole("slave")' <=> Whole("slave")
        /\ lib'["master"].jobs = <<>>
    BY Constants DEF MasterJobs, SlaveJobs, Whole
  <1>3. pc = "info" /\ Whole("master") => Whole("master")'
    BY Constants DEF Whole
  <1>4. OneAtATime' /\ (Still' <=> Still)
    <2>1. OneAtATime
      BY DEF PInv
    <2>2. OneAtATime'
      BY <1>1, <1>2, <2>1 DEF OneAtATime
    <2>3. Still' <=> Still
      BY <1>1, <1>2 DEF Still
    <2> QED
      BY <2>2, <2>3
  <1>5. WaitsOK'
    BY <1>4 DEF PInv, WaitsOK
  <1>6. VerifyOK'
    <2>1. VerifyOK
      BY DEF PInv
    <2>2. SlaveJobs'[1] = SlaveJobs[1]
      BY <1>2
    <2> QED
      BY <1>1, <1>2, <2>1, <2>2, Constants DEF VerifyOK
  <1>7. VerifiedOK'
    BY DEF VerifiedOK
  <1>8. InfoOK'
    BY <1>1, <1>2, <1>3, Constants DEF PInv, InfoOK
  <1>9. BurnOK'
    BY <1>2, SidesAre, Constants DEF PInv, BurnOK
  <1> QED
    BY <1>1, <1>4, <1>5, <1>6, <1>7, <1>8, <1>9 DEF PInv

LEMMA InvPhoneLeaves ==
  ASSUME IInv, PInv, PhoneLeaves
  PROVE  PInv'
  <1>1. /\ MasterLib(Closed) /\ phone' = "out" /\ net' = net /\ last' = last
        /\ sem' = sem /\ pc' = pc /\ api' = api /\ first' = first /\ boot' = boot
    BY DEF PhoneLeaves, PhoneIs, netVars, waitVars
  <1>2. /\ MasterJobs' = <<>> /\ lib'["slave"] = lib["slave"]
        /\ ~lib'["master"].open
    BY <1>1, MasterLibIs, NoJobs DEF IInv
  <1> QED
    BY <1>1, <1>2, InvMasterEnds

LEMMA InvMasterWrote ==
  ASSUME IInv, PInv, MasterWrote
  PROVE  PInv'
  <1>1. PICK p \in 1..NumPackets :
          /\ Job("master", Write(p))
          /\ \E stored \in {p, SPOILT} : MasterLib(Stored(lib["master"], stored))
    BY DEF MasterWrote
  <1>2. PICK stored \in {p, SPOILT} : MasterLib(Stored(lib["master"], stored))
    BY <1>1
  <1>3. /\ net' = net /\ last' = last /\ sem' = sem /\ pc' = pc /\ api' = api
        /\ first' = first /\ boot' = boot
    BY DEF MasterWrote, netVars, waitVars
  <1>5. /\ MasterJobs # <<>> /\ pc = "none"
        /\ Done(lib["master"]).jobs = <<>> /\ Done(lib["master"]).open
        /\ lib["master"].open /\ Done(lib["master"]) \in Lib
    BY <1>1, MasterJobEnds
  <1>4. ~first
    BY <1>5 DEF PInv, WaitsOK
  <1>6. /\ Stored(lib["master"], stored).jobs = <<>>
        /\ Stored(lib["master"], stored).open = lib["master"].open
    BY <1>5 DEF Stored, Lib
  <1>7. /\ MasterJobs' = <<>> /\ lib'["slave"] = lib["slave"]
        /\ lib'["master"].open = lib["master"].open
    BY <1>2, <1>6, MasterLibIs DEF IInv
  <1> QED
    BY <1>3, <1>4, <1>5, <1>7, InvMasterEnds

LEMMA InvMasterBurnt ==
  ASSUME IInv, PInv, MasterBurnt
  PROVE  PInv'
  <1>1. /\ Job("master", Burn) /\ net' = net /\ last' = last /\ sem' = sem
        /\ pc' = pc /\ api' = api /\ first' = first /\ TypeOK
    BY DEF MasterBurnt, netVars, waitVars, phoneVars, IInv
  <1>2. MasterJobs # <<>> /\ pc = "none" /\ ~first /\ MasterJobs[1] = Burn
    <2>1. MasterJobs # <<>> /\ pc = "none" /\ MasterJobs[1] = Burn
      BY <1>1, MasterJobEnds
    <2> QED
      BY <2>1 DEF PInv, WaitsOK
  <1>4. Done(lib["master"]).jobs = <<>> /\ lib["master"].open
    BY <1>1, MasterJobEnds
  <1>5. /\ MasterJobs' = <<>> /\ lib'["slave"] = lib["slave"]
        /\ lib'["master"].open => lib["master"].open
    <2>1. MasterLib(Done(lib["master"])) \/ MasterLib(Closed)
      BY DEF MasterBurnt
    <2> QED
      BY <1>1, <1>4, <2>1, MasterLibIs, NoJobs
  <1>6. boot'["slave"] = boot["slave"]
    <2>1. boot' = [boot EXCEPT !["master"] = "new"] \/ boot' = boot
      BY DEF MasterBurnt
    <2> QED
      BY <1>1, <2>1 DEF TypeOK, Side
  <1>7. api => boot["slave"] = "new"
    BY <1>2 DEF PInv, BurnOK
  <1> QED
    BY <1>1, <1>2, <1>5, <1>6, <1>7, InvMasterEnds

LEMMA InvMasterVerified ==
  ASSUME IInv, PInv, MasterVerified
  PROVE  PInv'
  <1>1. /\ Job("master", Verify) /\ last' = last /\ sem' = sem
        /\ api' = api /\ first' = first /\ boot' = boot /\ want' = want /\ TypeOK
    BY DEF MasterVerified, IInv
  <1>2. /\ MasterJobs # <<>> /\ pc = "none" /\ phone = "waits" /\ ~first
        /\ MasterJobs[1] = Verify
    <2>1. /\ MasterJobs # <<>> /\ pc = "none" /\ phone = "waits"
          /\ MasterJobs[1] = Verify
      BY <1>1, MasterJobEnds
    <2> QED
      BY <2>1 DEF PInv, WaitsOK
  <1>4. /\ Done(lib["master"]).jobs = <<>>
        /\ Done(lib["master"]).image = lib["master"].image
        /\ Done(lib["master"]) \in Lib
    BY <1>1, MasterJobEnds
  <1>5. CASE lib["master"].image # Image
    <2>1. MasterLib(Closed) /\ net' = net /\ pc' = pc
      BY <1>5 DEF MasterVerified, netVars
    <2>2. MasterJobs' = <<>> /\ lib'["slave"] = lib["slave"] /\ ~lib'["master"].open
      BY <1>1, <2>1, MasterLibIs, NoJobs
    <2> QED
      BY <1>1, <1>2, <2>1, <2>2, InvMasterEnds
  <1>6. CASE lib["master"].image = Image /\ api
    <2>0. PICK ok \in BOOLEAN :
            /\ Send("master", "INFO", 0, ok)
            /\ pc' = IF ok THEN "info" ELSE pc
      BY <1>6 DEF MasterVerified
    <2>1. MasterLib(Done(lib["master"]))
      BY <1>6 DEF MasterVerified
    <2>2. /\ MasterJobs' = <<>> /\ SlaveJobs' = SlaveJobs
          /\ lib'["slave"] = lib["slave"] /\ lib'["master"].image = Image
          /\ Whole("slave")' <=> Whole("slave")
      BY <1>1, <1>4, <1>6, <2>1, MasterLibIs
    <2>3. /\ ~Busy(net["slave"]) /\ ~Busy(net["master"]) /\ SlaveJobs = <<>>
          /\ sem = 0 /\ Whole("slave")
      BY <1>2, <1>6 DEF PInv, VerifiedOK, Still
    <2>4. /\ QueuesOK' /\ ~(Busy(net["master"]))'
          /\ (Busy(net["slave"]))' => ok /\ (Newest(net["slave"]))'.cmd = "INFO"
      <3>1. Fits("INFO", 0) /\ "master" \in Side
        BY DEF Fits, Command, Side
      <3>2. /\ QueuesOK' /\ net'["master"] = net["master"]
            /\ ok => Busy(net'["slave"]) /\ Newest(net'["slave"]).cmd = "INFO"
            /\ ~ok => net'["slave"] = net["slave"]
        BY <1>1, <2>0, <2>3, <3>1, SidesAre, SendKeepsQueues DEF PInv
      <3> QED
        BY <2>3, <3>2
    <2>5. Whole("slave")' /\ Whole("master")'
      BY <2>2, <2>3, Constants DEF Whole
    <2>6. OneAtATime'
      BY <1>1, <2>2, <2>3, <2>4 DEF OneAtATime
    <2>7. WaitsOK' /\ VerifyOK' /\ VerifiedOK'
      BY <1>1, <1>2, <1>6, <2>0, <2>2 DEF WaitsOK, VerifyOK, VerifiedOK
    <2>8. InfoOK'
      BY <1>1, <2>0, <2>2, <2>3, <2>4, <2>5 DEF InfoOK
    <2>9. BurnOK'
      BY <1>1, <2>2, <2>3, SidesAre, Constants DEF PInv, BurnOK, MasterJobs, SlaveJobs
    <2> QED
      BY <2>4, <2>6, <2>7, <2>8, <2>9 DEF PInv
  <1>7. CASE lib["master"].image = Image /\ ~api
    <2>1. /\ MasterLib(Given(Done(lib["master"]), Burn)) /\ net' = net /\ pc' = pc
      BY <1>7 DEF MasterVerified, netVars
    <2>2. /\ lib'["slave"] = lib["slave"] /\ SlaveJobs' = SlaveJobs
          /\ lib'["master"] = Given(Done(lib["master"]), Burn)
      BY <1>1, <2>1, MasterLibIs
    <2>3. lib'["master"].image = Image
      BY <1>4, <1>7, <2>2, GivenFirst, JobTypes
    <2>4. /\ QueuesOK'
          /\ (Busy(net["slave"]))' <=> Busy(net["slave"])
          /\ (Busy(net["master"]))' <=> Busy(net["master"])
          /\ (Newest(net["slave"]))' = Newest(net["slave"])
      BY <1>1, <2>1, QueuesSame, SidesAre DEF PInv
    <2>5. OneAtATime'
      BY <1>1, <2>2, <2>4 DEF PInv, OneAtATime
    <2>6. WaitsOK' /\ VerifyOK' /\ VerifiedOK' /\ InfoOK'
      BY <1>1, <1>2, <1>7, <2>1, <2>4 DEF PInv, WaitsOK, VerifyOK, VerifiedOK, InfoOK
    <2>7. BurnOK'
      BY <1>1, <1>7, <2>2, <2>3, SidesAre, Constants DEF PInv, BurnOK
    <2> QED
      BY <2>4, <2>5, <2>6, <2>7 DEF PInv
  <1> QED
    BY <1>5, <1>6, <1>7

----------------------------------------------------------------------------
(* The slave's side. *)
LEMMA InvMasterReceives ==
  ASSUME IInv, PInv, MasterReceives
  PROVE  PInv'
  <1>1. /\ TypeOK /\ net["master"] # <<>> /\ pc' = pc /\ api' = api /\ first' = first
        /\ want' = want /\ phone' = phone /\ lib' = lib /\ boot' = boot
    BY DEF MasterReceives, IInv, phoneVars
  <1>2. PICK r \in Taken(net["master"]) : net' = [net EXCEPT !["master"] = r]
    BY DEF MasterReceives
  <1>3. /\ last' = [last EXCEPT !["master"] = Head(net["master"]).sn]
        /\ sem' = IF /\ ~Repeats("master") /\ Head(net["master"]).cmd \in Answer
                     /\ Head(net["master"]).arg = SUCC
                    THEN sem + 1 ELSE sem
    BY DEF MasterReceives
  <1>4. last'["master"] = Head(net["master"]).sn /\ last'["slave"] = last["slave"]
    BY <1>1, <1>3 DEF TypeOK, Side
  <1>5. /\ QueuesOK' /\ net'["master"] = r /\ net'["slave"] = net["slave"]
        /\ Busy(r) => Busy(net["master"]) /\ Newest(r) = Newest(net["master"])
        /\ \/ Repeats("master")
           \/ /\ Busy(net["master"]) /\ Newest(net["master"]) = Head(net["master"])
              /\ ~Busy(r)
    <2>1. PICK numbers : numbers = last'
      OBVIOUS
    <2>2. PICK n : n = net'
      OBVIOUS
    <2>3. /\ n = [net EXCEPT !["master"] = r]
          /\ numbers["master"] = Head(net["master"]).sn
          /\ numbers[Other("master")] = last[Other("master")]
      BY <1>2, <1>4, <2>1, <2>2, SidesAre
    <2>0. "master" \in Side /\ Other("master") = "slave" /\ QueuesOK
      BY SidesAre DEF PInv
    <2>4. Received("master", r, n, numbers)
      <3>1. Receives("master", r, n, numbers)
        BY <1>1, <2>3 DEF Receives
      <3> QED
        BY <1>1, <2>0, <3>1, Receipt
    <2> QED
      BY <2>0, <2>1, <2>2, <2>4 DEF QueuesOK, Fine, Received
  <1>6. /\ (Busy(net["slave"]))' <=> Busy(net["slave"])
        /\ (Newest(net["slave"]))' = Newest(net["slave"])
        /\ (Busy(net["master"]))' => /\ Busy(net["master"])
                                     /\ (Newest(net["master"]))' = Newest(net["master"])
    BY <1>5 DEF Busy, Newest
  <1>7. /\ SlaveJobs' = SlaveJobs /\ MasterJobs' = MasterJobs
        /\ Whole("slave")' <=> Whole("slave")
        /\ Whole("master")' <=> Whole("master")
    BY <1>1, Constants DEF SlaveJobs, MasterJobs, Whole
  <1>8. CASE sem' = sem
    <2>1. OneAtATime'
      BY <1>6, <1>7, <1>8 DEF PInv, OneAtATime
    <2>2. Still => Still'
      BY <1>6, <1>7, <1>8 DEF Still
    <2>3. WaitsOK' /\ VerifiedOK'
      BY <1>1, <1>7, <2>2, Constants DEF PInv, WaitsOK, VerifiedOK
    <2>4. VerifyOK' /\ InfoOK'
      BY <1>1, <1>6, <1>7, <1>8, Constants DEF PInv, VerifyOK, InfoOK
    <2>5. BurnOK'
      BY <1>1, <1>7, Constants DEF PInv, BurnOK
    <2> QED
      BY <1>5, <2>1, <2>3, <2>4, <2>5 DEF PInv
  <1>9. CASE sem' # sem
    <2>1. /\ ~Repeats("master") /\ Head(net["master"]).arg = SUCC /\ sem' = sem + 1
      BY <1>3, <1>9
    <2>2. /\ Busy(net["master"]) /\ ~(Busy(net["master"]))'
          /\ Newest(net["master"]).arg = SUCC
      BY <1>5, <2>1 DEF Busy
    <2>3. /\ sem = 0 /\ SlaveJobs = <<>> /\ ~Busy(net["slave"])
      BY <2>2 DEF PInv, OneAtATime
    <2>4. sem' = 1
      BY <2>1, <2>3
    <2>5. OneAtATime'
      BY <1>6, <1>7, <2>2, <2>3, <2>4 DEF OneAtATime
    <2>6. ~Still
      BY <2>2 DEF Still
    <2>7. WaitsOK' /\ VerifiedOK'
      BY <1>1, <1>7, <2>6, Constants DEF PInv, WaitsOK, VerifiedOK
    <2>8. VerifyOK' /\ InfoOK'
      BY <1>1, <1>6, <1>7, <2>2, <2>3, Constants DEF PInv, VerifyOK, InfoOK
    <2>9. BurnOK'
      BY <1>1, <1>7, Constants DEF PInv, BurnOK
    <2> QED
      BY <1>5, <2>5, <2>7, <2>8, <2>9 DEF PInv
  <1> QED
    BY <1>8, <1>9

LEMMA InvSlaveTimeout ==
  ASSUME IInv, PInv, NEW d \in Side, lib' = [lib EXCEPT ![d] = Closed],
         net' = net, last' = last, sem' = sem, pc' = pc, api' = api, first' = first,
         want' = want, phone' = phone, boot' = boot
  PROVE  PInv'
  <1>1. /\ lib'[d] = Closed /\ lib'[Other(d)] = lib[Other(d)] /\ TypeOK
    BY SidesAre DEF IInv, TypeOK
  <1>2. /\ \A e \in Side : lib'[e] = lib[e] \/ lib'[e] = Closed
        /\ SlaveJobs' = SlaveJobs \/ SlaveJobs' = <<>>
        /\ MasterJobs' = MasterJobs \/ MasterJobs' = <<>>
        /\ Whole("slave") => Whole("slave")'
        /\ Whole("master") => Whole("master")'
    BY <1>1, SidesAre, NoJobs, Constants DEF SlaveJobs, MasterJobs, Whole
  <1>3. /\ QueuesOK'
        /\ (Busy(net["slave"]))' <=> Busy(net["slave"])
        /\ (Busy(net["master"]))' <=> Busy(net["master"])
        /\ (Newest(net["slave"]))' = Newest(net["slave"])
        /\ (Newest(net["master"]))' = Newest(net["master"])
    BY QueuesSame, SidesAre DEF PInv
  <1>4. OneAtATime'
    <2>1. SlaveJobs' # <<>> => SlaveJobs # <<>>
      BY <1>2
    <2>2. Len(SlaveJobs') <= 1
      BY <1>2 DEF PInv, OneAtATime
    <2> QED
      BY <1>3, <2>1, <2>2 DEF PInv, OneAtATime
  <1>5. Still => Still'
    BY <1>2, <1>3 DEF Still
  <1>6. WaitsOK'
    BY <1>2, <1>5 DEF PInv, WaitsOK
  <1>7. VerifyOK' /\ VerifiedOK' /\ InfoOK'
    BY <1>2, <1>3, <1>5, Constants DEF PInv, VerifyOK, VerifiedOK, InfoOK
  <1>8. BurnOK'
    BY <1>2, NoJobs, Constants DEF PInv, BurnOK
  <1> QED
    BY <1>3, <1>4, <1>6, <1>7, <1>8 DEF PInv

\* With the link the packets on their way are lost.
LEMMA InvLost ==
  ASSUME IInv, PInv, net' = [e \in Side |-> <<>>], lib' = lib,
         sem' = sem, pc' = pc, api' = api, first' = first, want' = want,
         phone' = phone, boot' = boot
  PROVE  PInv'
  <1>1. /\ QueuesOK' /\ ~(Busy(net["slave"]))' /\ ~(Busy(net["master"]))'
    <2>1. net'["slave"] = <<>> /\ net'["master"] = <<>>
      BY SidesAre
    <2>2. Fine(net', last')
      BY <2>1, SidesAre, EmptyIsFine DEF Fine
    <2> QED
      BY <2>1, <2>2, EmptyIsFine DEF QueuesOK, Fine, Busy
  <1>2. SlaveJobs' = SlaveJobs /\ MasterJobs' = MasterJobs
    BY DEF SlaveJobs, MasterJobs
  <1>3. OneAtATime'
    BY <1>1, <1>2 DEF PInv, OneAtATime
  <1>4. Still => Still'
    BY <1>1, <1>2 DEF Still
  <1>5. WaitsOK'
    BY <1>2, <1>4 DEF PInv, WaitsOK
  <1>6. VerifyOK' /\ VerifiedOK' /\ InfoOK'
    BY <1>1, <1>2, <1>4, Constants DEF PInv, VerifyOK, VerifiedOK, InfoOK, Whole
  <1>7. BurnOK'
    BY <1>2, Constants DEF PInv, BurnOK
  <1> QED
    BY <1>1, <1>3, <1>5, <1>6, <1>7 DEF PInv

LEMMA InvRestart ==
  ASSUME IInv, PInv, NEW d \in Side, Restart(d)
  PROVE  PInv'
  <1>1. /\ lib' = [lib EXCEPT ![d] = Closed] /\ net' = [e \in Side |-> <<>>]
        /\ boot' = boot /\ TypeOK
    BY DEF Restart, IInv
  <1>2. /\ QueuesOK' /\ ~(Busy(net["slave"]))' /\ ~(Busy(net["master"]))'
    <2>1. net'["slave"] = <<>> /\ net'["master"] = <<>>
      BY <1>1, SidesAre
    <2>2. Fine(net', last')
      BY <2>1, SidesAre, EmptyIsFine DEF Fine
    <2> QED
      BY <2>1, <2>2, EmptyIsFine DEF QueuesOK, Fine, Busy
  <1>3. lib'[d] = Closed /\ lib'[Other(d)] = lib[Other(d)]
    BY <1>1, SidesAre DEF TypeOK
  <1>4. /\ \A e \in Side : lib'[e] = lib[e] \/ lib'[e] = Closed
        /\ SlaveJobs' = SlaveJobs \/ SlaveJobs' = <<>>
        /\ MasterJobs' = MasterJobs \/ MasterJobs' = <<>>
        /\ Whole("slave") => Whole("slave")'
        /\ Whole("master") => Whole("master")'
    BY <1>3, SidesAre, NoJobs, Constants DEF SlaveJobs, MasterJobs, Whole
  <1>5. BurnOK' \/ d = "master"
    <2>1. CASE d = "slave"
      <3>1. api' = api
        BY <2>1 DEF Restart, waitVars
      <3> QED
        BY <1>1, <1>4, <3>1, NoJobs, Constants DEF PInv, BurnOK
    <2> QED
      BY <2>1, SidesAre
  <1>6. CASE d = "master"
    <2>1. pc' = "none" /\ sem' = 0 /\ api' = FALSE /\ phone' = "out"
      BY <1>6 DEF Restart, PhoneIs
    <2>2. SlaveJobs' = SlaveJobs /\ MasterJobs' = <<>>
      BY <1>3, <1>6, SidesAre, NoJobs DEF SlaveJobs, MasterJobs
    <2>3. OneAtATime'
      BY <1>2, <2>1, <2>2 DEF PInv, OneAtATime
    <2>4. WaitsOK' /\ VerifyOK' /\ VerifiedOK' /\ InfoOK'
      BY <1>2, <2>1, <2>2 DEF WaitsOK, VerifyOK, VerifiedOK, InfoOK
    <2>5. BurnOK'
      BY <1>4, <2>1, NoJobs, Constants DEF PInv, BurnOK
    <2> QED
      BY <1>2, <2>3, <2>4, <2>5 DEF PInv
  <1>7. CASE d = "slave"
    <2>1. /\ pc' = pc /\ sem' = sem /\ api' = api /\ phone' = phone
          /\ first' = first /\ want' = want
      BY <1>7 DEF Restart, waitVars
    <2>2. SlaveJobs' = <<>> /\ MasterJobs' = MasterJobs
      BY <1>3, <1>7, SidesAre, NoJobs DEF SlaveJobs, MasterJobs
    <2>3. OneAtATime'
      BY <1>2, <2>1, <2>2 DEF PInv, OneAtATime
    <2>4. Still => Still'
      BY <1>2, <2>1, <2>2 DEF Still
    <2>5. WaitsOK'
      BY <2>1, <2>2, <2>4 DEF PInv, WaitsOK
    <2>6. VerifyOK' /\ VerifiedOK' /\ InfoOK'
      BY <1>1, <1>2, <1>4, <2>1, <2>2, <2>4, Constants
      DEF PInv, VerifyOK, VerifiedOK, InfoOK
    <2> QED
      BY <1>2, <1>5, <1>7, <2>3, <2>5, <2>6 DEF PInv
  <1> QED
    BY <1>6, <1>7, SidesAre

\* A step of the slave that takes the command or its job on: what it leaves
\* in its place is the next thing under way.
LEMMA SlaveActs ==
  ASSUME IInv, PInv, ~Still, sem = 0, sem' = sem, QueuesOK', ~(Busy(net["slave"]))',
         Len(SlaveJobs') <= 1, (Busy(net["master"]))' => SlaveJobs' = <<>>,
         lib'["master"] = lib["master"], pc' = pc, api' = api, first' = first,
         want' = want, phone' = phone, boot'["master"] = boot["master"],
         boot'["slave"] = boot["slave"] \/ boot'["slave"] = "new",
         pc = "verify" =>
           /\ SlaveJobs' # <<>> => SlaveJobs'[1] = Verify
           /\ (Busy(net["master"]))' /\ (Newest(net["master"]))'.arg = SUCC
                => Whole("slave")',
         pc = "info" =>
           /\ Whole("slave")'
           /\ SlaveJobs' # <<>> => SlaveJobs'[1] = Burn
           /\ (Busy(net["master"]))' /\ (Newest(net["master"]))'.arg = SUCC
                => boot'["slave"] = "new",
         SlaveJobs' # <<>> /\ SlaveJobs'[1] = Burn => lib'["slave"].image = Image
  PROVE  PInv'
  <1>1. MasterJobs' = MasterJobs
    BY DEF MasterJobs
  <1>2. Whole("master")' <=> Whole("master")
    BY Constants DEF Whole
  <1>3. OneAtATime'
    BY DEF OneAtATime
  <1>4. WaitsOK' /\ VerifiedOK'
    BY <1>1, Constants DEF PInv, WaitsOK, VerifiedOK
  <1>5. VerifyOK'
    BY Constants DEF VerifyOK
  <1>6. InfoOK'
    BY <1>2, Constants DEF PInv, InfoOK
  <1>7. BurnOK'
    BY <1>1, SidesAre, Constants DEF PInv, BurnOK, SlaveJobs, MasterJobs
  <1> QED
    BY <1>3, <1>4, <1>5, <1>6, <1>7 DEF PInv

LEMMA SlaveGets ==
  ASSUME TypeOK, JobsOK, SlaveJobs = <<>>, NEW op \in Jobs,
         SlaveLib(Given(lib["slave"], op))
  PROVE  /\ Len(SlaveJobs') <= 1
         /\ SlaveJobs' # <<>> => SlaveJobs'[1] = op /\ lib["slave"].open
         /\ lib'["slave"].image = lib["slave"].image
         /\ lib'["slave"].open = lib["slave"].open
         /\ lib'["master"] = lib["master"]
  <1>1. /\ lib'["slave"] = Given(lib["slave"], op)
        /\ SlaveJobs' = Given(lib["slave"], op).jobs
        /\ lib'["master"] = lib["master"]
    BY SlaveLibIs
  <1>2. lib["slave"] \in Lib /\ lib["slave"].jobs = <<>>
    BY SidesAre DEF TypeOK, SlaveJobs
  <1>3. /\ Given(lib["slave"], op).jobs = IF lib["slave"].open THEN <<op>> ELSE <<>>
        /\ Given(lib["slave"], op).image = lib["slave"].image
        /\ Given(lib["slave"], op).open = lib["slave"].open
    BY <1>2, GivenFirst
  <1>4. SlaveJobs' = IF lib["slave"].open THEN <<op>> ELSE <<>>
    BY <1>1, <1>3
  <1>5. Len(<<>>) = 0 /\ Len(<<op>>) = 1 /\ <<op>>[1] = op
    OBVIOUS
  <1> QED
    BY <1>1, <1>3, <1>4, <1>5

\* The answer to a packet that leaves the queue of the slave.
LEMMA Replied ==
  ASSUME IInv, PInv, net["slave"] # <<>>, NEW r \in Taken(net["slave"]), ~Repeats("slave"),
         last' = [last EXCEPT !["slave"] = Head(net["slave"]).sn],
         NEW cmd, NEW arg, Fits(cmd, arg), NEW ok \in BOOLEAN,
         Replies(r, cmd, arg, ok)
  PROVE  /\ QueuesOK' /\ ~(Busy(net["slave"]))'
         /\ (Busy(net["master"]))' => (Newest(net["master"]))'.arg = arg
  <1>1. TypeOK /\ QueuesOK
    BY DEF IInv, PInv
  <1>2. last'["slave"] = Head(net["slave"]).sn /\ last'["master"] = last["master"]
    BY <1>1 DEF TypeOK, Side
  <1>3. PICK n : n = last'
    OBVIOUS
  <1>4. PICK q : q = [net EXCEPT !["slave"] = r]
    OBVIOUS
  <1>5. /\ q \in Queues /\ Fine(q, n) /\ q["slave"] = r /\ q["master"] = net["master"]
        /\ ~Busy(r) /\ Busy(net["slave"])
    <2>1. n["slave"] = Head(net["slave"]).sn /\ n[Other("slave")] = last[Other("slave")]
      BY <1>2, <1>3, SidesAre
    <2>2. "slave" \in Side /\ Other("slave") = "master"
      BY SidesAre
    <2>3. Received("slave", r, q, n)
      <3>1. Receives("slave", r, q, n)
        BY <1>4, <2>1 DEF Receives
      <3> QED
        BY <1>1, <2>2, <3>1, Receipt
    <2> QED
      BY <2>2, <2>3 DEF Received
  <1>6. ~Busy(q["master"])
    BY <1>5 DEF PInv, OneAtATime
  <1>7. SendOver(q, "slave", cmd, arg, ok)
    BY <1>4 DEF Replies, Left
  <1>8. /\ Fine(net', n) /\ net'["slave"] = q["slave"]
        /\ ok => /\ Busy(net'["master"])
                 /\ Newest(net'["master"]).arg = arg
        /\ ~ok => net'["master"] = q["master"]
    BY <1>1, <1>5, <1>6, <1>7, SidesAre, SendKeepsFine
  <1>9. QueuesOK'
    BY <1>3, <1>8 DEF QueuesOK, Fine
  <1>10. ~Busy(net'["slave"]) /\ (Busy(net'["master"]) => Newest(net'["master"]).arg = arg)
    BY <1>5, <1>6, <1>8
  <1> QED
    BY <1>9, <1>10 DEF Busy, Newest

LEMMA NotReplied ==
  ASSUME IInv, PInv, net["slave"] # <<>>, NEW r \in Taken(net["slave"]), Silent(r),
         last' = [last EXCEPT !["slave"] = Head(net["slave"]).sn]
  PROVE  /\ QueuesOK' /\ (Busy(net["master"]) <=> (Busy(net["master"]))')
         /\ (Newest(net["master"]))' = Newest(net["master"])
         /\ (Busy(net["slave"]))' => /\ Busy(net["slave"])
                                     /\ (Newest(net["slave"]))' = Newest(net["slave"])
         /\ ~Repeats("slave") => ~(Busy(net["slave"]))'
  <1>1. TypeOK /\ QueuesOK
    BY DEF IInv, PInv
  <1>2. last'["slave"] = Head(net["slave"]).sn /\ last'["master"] = last["master"]
    BY <1>1 DEF TypeOK, Side
  <1>3. PICK n : n = last'
    OBVIOUS
  <1>4. PICK q : q = [net EXCEPT !["slave"] = r]
    OBVIOUS
  <1>5. /\ Fine(q, n) /\ q["slave"] = r /\ q["master"] = net["master"]
        /\ Busy(r) => Busy(net["slave"]) /\ Newest(r) = Newest(net["slave"])
        /\ Repeats("slave") \/ ~Busy(r)
    <2>1. n["slave"] = Head(net["slave"]).sn /\ n[Other("slave")] = last[Other("slave")]
      BY <1>2, <1>3, SidesAre
    <2>2. "slave" \in Side /\ Other("slave") = "master"
      BY SidesAre
    <2>3. Received("slave", r, q, n)
      <3>1. Receives("slave", r, q, n)
        BY <1>4, <2>1 DEF Receives
      <3> QED
        BY <1>1, <2>2, <3>1, Receipt
    <2> QED
      BY <2>2, <2>3 DEF Received
  <1>6. net' = q
    BY <1>4 DEF Silent, Left
  <1>7. QueuesOK'
    BY <1>3, <1>5, <1>6 DEF QueuesOK, Fine
  <1> QED
    BY <1>5, <1>6, <1>7 DEF Busy, Newest

LEMMA InvRepeat ==
  ASSUME IInv, PInv, net["slave"] # <<>>, NEW r \in Taken(net["slave"]), Silent(r),
         Repeats("slave"), last' = last, lib' = lib, sem' = sem, pc' = pc, api' = api,
         first' = first, want' = want, phone' = phone, boot' = boot
  PROVE  PInv'
  <1>1. last' = [last EXCEPT !["slave"] = Head(net["slave"]).sn]
    BY SidesAre DEF Repeats, IInv, TypeOK
  <1>2. /\ QueuesOK'
        /\ (Busy(net["master"]))' <=> Busy(net["master"])
        /\ (Newest(net["master"]))' = Newest(net["master"])
        /\ (Busy(net["slave"]))' => /\ Busy(net["slave"])
                                    /\ (Newest(net["slave"]))' = Newest(net["slave"])
    BY <1>1, NotReplied
  <1>3. /\ SlaveJobs' = SlaveJobs /\ MasterJobs' = MasterJobs
        /\ Whole("slave")' <=> Whole("slave")
        /\ Whole("master")' <=> Whole("master")
    BY Constants DEF SlaveJobs, MasterJobs, Whole
  <1>4. OneAtATime'
    BY <1>2, <1>3 DEF PInv, OneAtATime
  <1>5. Still => Still'
    BY <1>2, <1>3 DEF Still
  <1>6. WaitsOK' /\ VerifiedOK'
    BY <1>3, <1>5, Constants DEF PInv, WaitsOK, VerifiedOK
  <1>7. VerifyOK' /\ InfoOK'
    BY <1>2, <1>3, Constants DEF PInv, VerifyOK, InfoOK
  <1>8. BurnOK'
    BY <1>3, Constants DEF PInv, BurnOK
  <1> QED
    BY <1>2, <1>4, <1>6, <1>7, <1>8 DEF PInv

\* The slave takes a new command: the master waits for nothing else.
LEMMA InvSlaveTakes ==
  ASSUME IInv, PInv, net["slave"] # <<>>, NEW r \in Taken(net["slave"]),
         ~Repeats("slave"), Handles(Head(net["slave"]), r),
         last' = [last EXCEPT !["slave"] = Head(net["slave"]).sn],
         sem' = sem, pc' = pc, api' = api, first' = first, want' = want,
         phone' = phone, boot' = boot
  PROVE  PInv'
  <1> DEFINE h == Head(net["slave"])
  <1>1. TypeOK /\ JobsOK /\ QueuesOK
    BY DEF IInv, PInv
  <1>2. Busy(net["slave"]) /\ Newest(net["slave"]) = h
    <2>1. PICK n : n = [last EXCEPT !["slave"] = h.sn]
      OBVIOUS
    <2>2. PICK q : q = [net EXCEPT !["slave"] = r]
      OBVIOUS
    <2>3. Receives("slave", r, q, n)
      BY <1>1, <2>1, <2>2, SidesAre DEF Receives, TypeOK
    <2>4. Received("slave", r, q, n)
      BY <1>1, <2>3, SidesAre, Receipt
    <2> QED
      BY <2>4 DEF Received
  <1>3. ~Still /\ sem = 0 /\ SlaveJobs = <<>> /\ ~Busy(net["master"])
    BY <1>2 DEF PInv, OneAtATime, Still
  <1>4. /\ pc = "verify" => h.cmd = "VERIFY"
        /\ pc = "info" => h.cmd = "INFO" /\ Whole("slave")
        /\ h.cmd = "INFO" => pc = "info"
    BY <1>2 DEF PInv, VerifyOK, InfoOK
  <1> HIDE DEF h
  <1>5. CASE h.cmd = "START" /\ Starts(r)
    <2>1. PICK allowed \in BOOLEAN, ok \in BOOLEAN :
            /\ SlaveLib(Opened)
            /\ Replies(r, "START_RSP", IF allowed THEN SUCC ELSE ERR, ok)
      BY <1>5 DEF Starts
    <2>2. PICK arg \in {SUCC, ERR} : Replies(r, "START_RSP", arg, ok)
      BY <2>1
    <2>3. Fits("START_RSP", arg)
      BY <2>2 DEF Fits, Answer, Command
    <2>4. QueuesOK' /\ ~(Busy(net["slave"]))'
      BY <2>2, <2>3, Replied
    <2>5. SlaveJobs' = <<>> /\ lib'["master"] = lib["master"]
      BY <1>1, <2>1, SlaveLibIs, NoJobs
    <2>6. Len(SlaveJobs') <= 1
      BY <2>5
    <2>7. pc # "verify" /\ pc # "info"
      BY <1>4, <1>5
    <2> QED
      BY <1>3, <2>4, <2>5, <2>6, <2>7, SlaveActs
  <1>6. CASE h.cmd = "DATA" /\ SlaveLib(Given(lib["slave"], Write(h.arg))) /\ Silent(r)
    <2>1. /\ QueuesOK' /\ ~(Busy(net["slave"]))' /\ ~(Busy(net["master"]))'
      BY <1>3, <1>6, NotReplied
    <2>2. Write(h.arg) \in Jobs
      <3>1. h \in Packet
        BY <1>1, SidesAre DEF TypeOK, h
      <3>2. h.arg \in 1..NumPackets
        BY <1>6, <3>1 DEF Packet, Command, Answer
      <3> QED
        BY <3>2, JobTypes
    <2>3. /\ Len(SlaveJobs') <= 1 /\ lib'["master"] = lib["master"]
          /\ SlaveJobs' # <<>> => SlaveJobs'[1] = Write(h.arg)
      BY <1>1, <1>3, <1>6, <2>2, SlaveGets
    <2>4. pc # "verify" /\ pc # "info"
      BY <1>4, <1>6
    <2> QED
      BY <1>3, <2>1, <2>3, <2>4, KindsOfJob, SlaveActs
  <1>7. CASE h.cmd = "VERIFY" /\ Verifies(r)
    <2>1. pc # "info"
      BY <1>4, <1>7
    <2>2. CASE lib["slave"].open
      <3>1. SlaveLib(Given(lib["slave"], Verify)) /\ Silent(r)
        BY <1>7, <2>2 DEF Verifies
      <3>2. /\ QueuesOK' /\ ~(Busy(net["slave"]))' /\ ~(Busy(net["master"]))'
        BY <1>3, <3>1, NotReplied
      <3>3. /\ Len(SlaveJobs') <= 1 /\ lib'["master"] = lib["master"]
            /\ SlaveJobs' # <<>> => SlaveJobs'[1] = Verify
        BY <1>1, <1>3, <3>1, JobTypes, SlaveGets
      <3> QED
        BY <1>3, <2>1, <3>2, <3>3, KindsOfJob, SlaveActs
    <2>3. CASE ~lib["slave"].open
      <3>1. PICK arg \in {SUCC, ERR}, ok \in BOOLEAN : Replies(r, "VERIFY_RSP", arg, ok)
        BY <1>7, <2>3 DEF Verifies
      <3>2. lib' = lib
        BY <1>7, <2>3 DEF Verifies
      <3>3. Fits("VERIFY_RSP", arg)
        BY <3>1 DEF Fits, Answer, Command
      <3>4. QueuesOK' /\ ~(Busy(net["slave"]))'
        BY <3>1, <3>3, Replied
      <3>5. SlaveJobs' = <<>> /\ lib'["master"] = lib["master"] /\ Whole("slave")'
        BY <1>3, <2>3, <3>2 DEF SlaveJobs, Whole
      <3>6. Len(SlaveJobs') <= 1
        BY <3>5
      <3> QED
        BY <1>3, <2>1, <3>4, <3>5, <3>6, SlaveActs
    <2> QED
      BY <2>2, <2>3
  <1>8. CASE h.cmd = "INFO" /\ SlaveLib(Given(lib["slave"], Burn)) /\ Silent(r)
    <2>1. /\ QueuesOK' /\ ~(Busy(net["slave"]))' /\ ~(Busy(net["master"]))'
      BY <1>3, <1>8, NotReplied
    <2>2. /\ Len(SlaveJobs') <= 1 /\ lib'["master"] = lib["master"]
          /\ SlaveJobs' # <<>> => SlaveJobs'[1] = Burn /\ lib["slave"].open
          /\ lib'["slave"].image = lib["slave"].image
          /\ lib'["slave"].open = lib["slave"].open
      BY <1>1, <1>3, <1>8, JobTypes, SlaveGets
    <2>3. pc = "info" /\ pc # "verify" /\ Whole("slave")
      BY <1>4, <1>8
    <2>4. /\ Whole("slave")'
          /\ SlaveJobs' # <<>> => lib'["slave"].image = Image
      BY <2>2, <2>3, Constants DEF Whole
    <2> QED
      BY <1>3, <2>1, <2>2, <2>3, <2>4, SlaveActs
  <1> QED
    BY <1>5, <1>6, <1>7, <1>8 DEF Handles, h

LEMMA InvSlaveReceives ==
  ASSUME IInv, PInv, SlaveReceives
  PROVE  PInv'
  <1>1. /\ net["slave"] # <<>> /\ sem' = sem /\ pc' = pc /\ api' = api
        /\ first' = first /\ want' = want /\ phone' = phone /\ boot' = boot
    BY DEF SlaveReceives, waitVars, phoneVars
  <1>2. PICK r \in Taken(net["slave"]) :
          IF Repeats("slave")
            THEN Silent(r) /\ UNCHANGED <<lib, last, timer>>
            ELSE /\ Handles(Head(net["slave"]), r)
                 /\ last' = [last EXCEPT !["slave"] = Head(net["slave"]).sn]
                 /\ timer' = TRUE
    BY DEF SlaveReceives
  <1>3. CASE Repeats("slave")
    BY <1>1, <1>2, <1>3, InvRepeat
  <1>4. CASE ~Repeats("slave")
    BY <1>1, <1>2, <1>4, InvSlaveTakes
  <1> QED
    BY <1>3, <1>4

\* The slave ends a job: nothing else is under way, and nothing remains of it.
LEMMA SlaveEnds ==
  ASSUME IInv, PInv, NEW op, Job("slave", op)
  PROVE  /\ ~Still /\ sem = 0 /\ ~Busy(net["slave"]) /\ ~Busy(net["master"])
         /\ Done(lib["slave"]).jobs = <<>> /\ SlaveJobs # <<>>
  <1>1. SlaveJobs # <<>> /\ Done(lib["slave"]) \in Lib
    BY SlaveJobEnds
  <1>2. /\ ~Still /\ sem = 0 /\ ~Busy(net["slave"]) /\ ~Busy(net["master"])
        /\ Len(SlaveJobs) <= 1
    BY <1>1 DEF PInv, OneAtATime, Still
  <1>3. lib["slave"] \in Lib /\ SlaveJobs \in Seq(Jobs)
    BY SidesAre DEF IInv, TypeOK, SlaveJobs, Lib
  <1>4. Tail(SlaveJobs) = <<>>
    BY <1>1, <1>2, <1>3
  <1> QED
    BY <1>1, <1>2, <1>3, <1>4 DEF Done, SlaveJobs, Lib

LEMMA Answers ==
  ASSUME IInv, PInv, ~Busy(net["slave"]), ~Busy(net["master"]), last' = last,
         NEW cmd \in Answer, NEW arg \in {SUCC, ERR}, NEW ok \in BOOLEAN,
         Send("slave", cmd, arg, ok)
  PROVE  /\ QueuesOK' /\ ~(Busy(net["slave"]))'
         /\ (Busy(net["master"]))' => (Newest(net["master"]))'.arg = arg
  <1>1. Fits(cmd, arg) /\ "slave" \in Side /\ QueuesOK
    BY SidesAre DEF Fits, Answer, Command, PInv
  <1>2. /\ QueuesOK' /\ net'["slave"] = net["slave"]
        /\ ok => Busy(net'["master"]) /\ Newest(net'["master"]).arg = arg
        /\ ~ok => net'["master"] = net["master"]
    BY <1>1, SidesAre, SendKeepsQueues
  <1> QED
    BY <1>2 DEF Busy, Newest

LEMMA InvSlaveWrote ==
  ASSUME IInv, PInv, SlaveWrote
  PROVE  PInv'
  <1>1. PICK p \in 1..NumPackets, ok \in BOOLEAN :
          /\ Job("slave", Write(p))
          /\ \E stored \in {p, SPOILT} : SlaveLib(Stored(lib["slave"], stored))
          /\ Send("slave", "DATA_RSP", SUCC, ok)
    BY DEF SlaveWrote
  <1>2. PICK stored \in {p, SPOILT} : SlaveLib(Stored(lib["slave"], stored))
    BY <1>1
  <1>3. /\ last' = last /\ sem' = sem /\ pc' = pc /\ api' = api /\ first' = first
        /\ want' = want /\ phone' = phone /\ boot' = boot /\ TypeOK
    BY DEF SlaveWrote, waitVars, phoneVars, IInv
  <1>4. /\ ~Still /\ sem = 0 /\ ~Busy(net["slave"]) /\ ~Busy(net["master"])
        /\ Done(lib["slave"]).jobs = <<>> /\ Done(lib["slave"]) \in Lib
        /\ SlaveJobs # <<>> /\ SlaveJobs[1] = Write(p)
    BY <1>1, SlaveEnds, SlaveJobEnds
  <1>5. Stored(lib["slave"], stored).jobs = <<>>
    BY <1>4 DEF Stored, Lib
  <1>6. SlaveJobs' = <<>> /\ lib'["master"] = lib["master"]
    BY <1>2, <1>3, <1>5, SlaveLibIs
  <1>7. QueuesOK' /\ ~(Busy(net["slave"]))'
    BY <1>1, <1>3, <1>4, Answers DEF Answer
  <1>8. pc # "verify" /\ pc # "info"
    BY <1>4, KindsOfJob DEF PInv, VerifyOK, InfoOK
  <1>9. Len(SlaveJobs') <= 1
    BY <1>6
  <1> QED
    BY <1>3, <1>4, <1>6, <1>7, <1>8, <1>9, SlaveActs

LEMMA InvSlaveVerified ==
  ASSUME IInv, PInv, SlaveVerified
  PROVE  PInv'
  <1>1. /\ Job("slave", Verify) /\ SlaveLib(Done(lib["slave"]))
        /\ last' = last /\ sem' = sem /\ pc' = pc /\ api' = api /\ first' = first
        /\ want' = want /\ phone' = phone /\ boot' = boot /\ TypeOK
    BY DEF SlaveVerified, waitVars, phoneVars, IInv
  <1>2. PICK arg \in {SUCC, ERR}, ok \in BOOLEAN :
          /\ arg = IF lib["slave"].image = Image THEN SUCC ELSE ERR
          /\ Send("slave", "VERIFY_RSP", arg, ok)
    <2>1. PICK ok \in BOOLEAN :
            Send("slave", "VERIFY_RSP",
                 IF lib["slave"].image = Image THEN SUCC ELSE ERR, ok)
      BY DEF SlaveVerified
    <2>2. PICK arg \in {SUCC, ERR} :
            arg = IF lib["slave"].image = Image THEN SUCC ELSE ERR
      OBVIOUS
    <2> QED
      BY <2>1, <2>2
  <1>3. /\ ~Still /\ sem = 0 /\ ~Busy(net["slave"]) /\ ~Busy(net["master"])
        /\ Done(lib["slave"]).jobs = <<>>
        /\ Done(lib["slave"]).image = lib["slave"].image
        /\ SlaveJobs # <<>> /\ SlaveJobs[1] = Verify
    BY <1>1, SlaveEnds, SlaveJobEnds
  <1>4. /\ SlaveJobs' = <<>> /\ lib'["master"] = lib["master"]
        /\ lib'["slave"].image = lib["slave"].image
    BY <1>1, <1>3, SlaveLibIs
  <1>5. /\ QueuesOK' /\ ~(Busy(net["slave"]))'
        /\ (Busy(net["master"]))' => (Newest(net["master"]))'.arg = arg
    BY <1>1, <1>2, <1>3, Answers DEF Answer
  <1>6. arg = SUCC => Whole("slave")'
    BY <1>2, <1>4, Constants DEF Whole, SUCC, ERR
  <1>7. pc # "info"
    BY <1>3, KindsOfJob DEF PInv, InfoOK
  <1>8. Len(SlaveJobs') <= 1
    BY <1>4
  <1> QED
    BY <1>1, <1>3, <1>4, <1>5, <1>6, <1>7, <1>8, SlaveActs

LEMMA InvSlaveBurnt ==
  ASSUME IInv, PInv, SlaveBurnt
  PROVE  PInv'
  <1>1. /\ Job("slave", Burn) /\ SlaveLib(Done(lib["slave"]))
        /\ last' = last /\ sem' = sem /\ pc' = pc /\ api' = api /\ first' = first
        /\ want' = want /\ phone' = phone /\ TypeOK
    BY DEF SlaveBurnt, waitVars, phoneVars, IInv
  <1>2. /\ ~Still /\ sem = 0 /\ ~Busy(net["slave"]) /\ ~Busy(net["master"])
        /\ Done(lib["slave"]).jobs = <<>> /\ Done(lib["slave"]).open
        /\ Done(lib["slave"]).image = lib["slave"].image /\ lib["slave"].open
        /\ SlaveJobs # <<>> /\ SlaveJobs[1] = Burn
    BY <1>1, SlaveEnds, SlaveJobEnds
  <1>3. /\ SlaveJobs' = <<>> /\ lib'["master"] = lib["master"]
        /\ lib'["slave"].image = lib["slave"].image
    BY <1>1, <1>2, SlaveLibIs
  <1>4. pc # "verify"
    BY <1>2, KindsOfJob DEF PInv, VerifyOK
  <1>5. Whole("slave")'
    <2>1. lib["slave"].image = Image
      BY <1>2, SidesAre DEF PInv, BurnOK, SlaveJobs
    <2> QED
      BY <1>3, <2>1, Constants DEF Whole
  <1>6. Len(SlaveJobs') <= 1
    BY <1>3
  <1>7. CASE /\ boot' = [boot EXCEPT !["slave"] = "new"]
             /\ \E ok \in BOOLEAN : Send("slave", "INFO_RSP", SUCC, ok)
    <2>1. boot'["slave"] = "new" /\ boot'["master"] = boot["master"]
      BY <1>1, <1>7 DEF TypeOK, Side
    <2>2. QueuesOK' /\ ~(Busy(net["slave"]))'
      BY <1>1, <1>2, <1>7, Answers DEF Answer
    <2> QED
      BY <1>1, <1>2, <1>3, <1>4, <1>5, <1>6, <2>1, <2>2, SlaveActs
  <1>8. CASE UNCHANGED <<boot, link, net, detached, faults>>
    <2>1. QueuesOK' /\ ~(Busy(net["slave"]))' /\ ~(Busy(net["master"]))'
      BY <1>1, <1>2, <1>8, QueuesSame, SidesAre DEF PInv
    <2> QED
      BY <1>1, <1>2, <1>3, <1>4, <1>5, <1>6, <1>8, <2>1, SlaveActs
  <1> QED
    BY <1>7, <1>8 DEF SlaveBurnt

LEMMA InvInit == Init => PInv
  <1> SUFFICES ASSUME Init
               PROVE  PInv
    OBVIOUS
  <1>1. /\ net["slave"] = <<>> /\ net["master"] = <<>>
        /\ lib["slave"] = Closed /\ lib["master"] = Closed
        /\ MasterJobs = <<>> /\ SlaveJobs = <<>>
    BY SidesAre, NoJobs DEF Init, MasterJobs, SlaveJobs
  <1>2. QueuesOK
    BY <1>1, SidesAre, EmptyIsFine DEF QueuesOK, Fine
  <1>3. ~Busy(net["slave"]) /\ ~Busy(net["master"])
    BY <1>1, EmptyIsFine
  <1>4. OneAtATime /\ WaitsOK
    BY <1>1, <1>3 DEF Init, OneAtATime, WaitsOK
  <1>5. VerifyOK /\ VerifiedOK /\ InfoOK
    BY <1>1, <1>3 DEF Init, VerifyOK, VerifiedOK, InfoOK
  <1>6. BurnOK
    BY <1>1, SidesAre, NoJobs DEF Init, BurnOK
  <1> QED
    BY <1>2, <1>4, <1>5, <1>6 DEF PInv

LEMMA InvStep == Prompt /\ IInv /\ PInv /\ ~overlap' /\ [Next]_vars => PInv'
  <1> SUFFICES ASSUME Prompt, IInv, PInv, ~overlap', [Next]_vars
               PROVE  PInv'
    OBVIOUS
  <1>1. CASE Master
    BY <1>1, InvStartWaits, InvDataWaits, InvLastWaits, InvVerifyWaits, InvInfoWaits,
       InvMasterWrote, InvMasterVerified, InvMasterBurnt, InvMasterReceives
    DEF Master
  <1>2. CASE SlaveTimeout
    <2>1. /\ lib' = [lib EXCEPT !["slave"] = Closed] /\ net' = net /\ last' = last
          /\ sem' = sem /\ pc' = pc /\ api' = api /\ first' = first /\ want' = want
          /\ phone' = phone /\ boot' = boot
      BY <1>2 DEF SlaveTimeout, SlaveLib, netVars, waitVars, phoneVars
    <2> QED
      BY <2>1, SidesAre, InvSlaveTimeout
  <1>3. CASE Slave /\ ~SlaveTimeout
    BY <1>3, InvSlaveReceives, InvSlaveWrote, InvSlaveVerified, InvSlaveBurnt DEF Slave
  <1>4. CASE Phone
    BY <1>4, InvOtaCheck, InvTransData, InvCheckCrc, InvPhoneLeaves DEF Phone
  <1>5. CASE Detach
    <2>1. /\ net' = [e \in Side |-> <<>>] /\ lib' = lib /\ sem' = sem /\ pc' = pc
          /\ api' = api /\ first' = first /\ want' = want /\ phone' = phone
          /\ boot' = boot
      BY <1>5 DEF Detach, waitVars, phoneVars
    <2> QED
      BY <2>1, InvLost
  <1>6. CASE UNCHANGED vars \/ Attach
    <2>1. /\ net' = net /\ last' = last /\ lib' = lib /\ sem' = sem /\ pc' = pc
          /\ api' = api /\ first' = first /\ want' = want /\ phone' = phone
          /\ boot' = boot
      BY <1>6 DEF Attach, vars, netVars, waitVars, phoneVars
    <2>2. /\ QueuesOK'
          /\ (Busy(net["slave"]))' <=> Busy(net["slave"])
          /\ (Busy(net["master"]))' <=> Busy(net["master"])
          /\ (Newest(net["slave"]))' = Newest(net["slave"])
          /\ (Newest(net["master"]))' = Newest(net["master"])
      BY <2>1, QueuesSame, SidesAre DEF PInv
    <2>3. SlaveJobs' = SlaveJobs /\ MasterJobs' = MasterJobs
      BY <2>1 DEF SlaveJobs, MasterJobs
    <2>4. /\ Whole("slave")' <=> Whole("slave")
          /\ Whole("master")' <=> Whole("master")
      BY <2>1, Constants DEF Whole
    <2>5. OneAtATime' /\ (Still => Still')
      BY <2>1, <2>2, <2>3 DEF PInv, OneAtATime, Still
    <2>6. WaitsOK' /\ VerifiedOK'
      BY <2>1, <2>3, <2>4, <2>5, Constants DEF PInv, WaitsOK, VerifiedOK
    <2>7. VerifyOK' /\ InfoOK'
      BY <2>1, <2>2, <2>3, <2>4, Constants DEF PInv, VerifyOK, InfoOK
    <2>8. BurnOK'
      BY <2>1, <2>3, Constants DEF PInv, BurnOK
    <2> QED
      BY <2>2, <2>5, <2>6, <2>7, <2>8 DEF PInv
  <1>7. ASSUME NEW d \in Side, TwsOtaStop(d)
        PROVE  PInv'
    <2>1. /\ lib' = [lib EXCEPT ![d] = Closed] /\ net' = net /\ last' = last
          /\ sem' = sem /\ pc' = pc /\ api' = api /\ first' = first /\ want' = want
          /\ phone' = phone /\ boot' = boot
      BY <1>7 DEF TwsOtaStop, waitVars, phoneVars
    <2> QED
      BY <2>1, InvSlaveTimeout
  <1>8. ASSUME NEW d \in Side, Restart(d)
        PROVE  PInv'
    BY <1>8, InvRestart
  <1> QED
    BY <1>1, <1>2, <1>3, <1>4, <1>5, <1>6, <1>7, <1>8 DEF Next, Radio

\* What has once overlapped stays so: nothing is claimed from there on.
LEMMA OverlapStays == [Next]_vars /\ ~overlap' => ~overlap
  <1> SUFFICES ASSUME [Next]_vars, overlap
               PROVE  overlap'
    OBVIOUS
  <1>1. CASE OtaCheck
    BY <1>1 DEF OtaCheck
  <1>2. Master \/ Slave => overlap' = overlap
    BY DEF Master, StartWaits, DataWaits, WritePacket, LastWaits, VerifyWaits, InfoWaits,
           MasterWrote, MasterVerified, MasterBurnt, MasterReceives, Slave,
           SlaveReceives, SlaveWrote, SlaveVerified, SlaveBurnt, SlaveTimeout
  <1>3. Phone => OtaCheck \/ overlap' = overlap
    BY DEF Phone, TransData, WritePacket, CheckCrc, PhoneLeaves
  <1>4. Radio => overlap' = overlap
    BY DEF Radio, Detach, Attach, TwsOtaStop, Restart
  <1> QED
    BY <1>1, <1>2, <1>3, <1>4 DEF Next, vars

LEMMA Invariants ==
  ASSUME Prompt
  PROVE  Spec => [](IInv /\ (overlap \/ PInv))
  <1>1. Init => IInv /\ PInv
    BY TypeInit, InvInit
  <1>2. IInv /\ (overlap \/ PInv) /\ [Next]_vars => (IInv /\ (overlap \/ PInv))'
    BY TypeStep, InvStep, OverlapStays
  <1> QED
    BY <1>1, <1>2, PTL DEF Spec

\* When answers are in time and no update begins in the middle of another,
\* the master of a pair changes to the new image only after its sibling
\* (tws_ota_exit_verify before the boot info is burnt).
THEOREM MasterIsLast ==
  ASSUME Prompt
  PROVE  Spec => []MasterBurnsLast
  <1>1. IInv /\ (overlap \/ PInv) => MasterBurnsLast
    <2> SUFFICES ASSUME IInv, PInv, api, boot["slave"] # "new"
                 PROVE  /\ boot["master"] # "new"
                        /\ ~\E i \in DOMAIN MasterJobs : MasterJobs[i] = Burn
      BY DEF MasterBurnsLast, MasterJobs
    <2>1. /\ boot["master"] # "new"
          /\ MasterJobs # <<>> => MasterJobs[1] # Burn
      BY DEF PInv, BurnOK
    <2>2. MasterJobs \in Seq(Jobs) /\ Len(MasterJobs) <= 1
      BY SidesAre DEF IInv, TypeOK, Lib, JobsOK, MasterJobs
    <2>3. \A i \in DOMAIN MasterJobs : i = 1 /\ MasterJobs # <<>>
      BY <2>2
    <2> QED
      BY <2>1, <2>3
  <1> QED
    BY Invariants, <1>1, PTL

----------------------------------------------------------------------------
(* The bank of the master, whenever the answers come and whatever they are  *)
(* about.                                                                   *)
OwnWhole ==
  /\ pc = "info" => Whole("master")
  /\ MasterJobs # <<>> /\ MasterJobs[1] = Burn => lib["master"].image = Image

\* Most steps leave the bank alone, close it or give a job that burns nothing.
LEMMA OwnWholeKept ==
  ASSUME OwnWhole, pc' = "info" => pc = "info", lib'["master"] = lib["master"]
  PROVE  OwnWhole'
  BY Constants DEF OwnWhole, Whole, MasterJobs

LEMMA OwnWholeClosed ==
  ASSUME lib'["master"].jobs = <<>>, pc' = "info" => ~lib'["master"].open
  PROVE  OwnWhole'
  BY DEF OwnWhole, Whole, MasterJobs

LEMMA OwnWholeGiven ==
  ASSUME TypeOK, MasterJobs = <<>>, NEW op \in Jobs \ {Burn},
         MasterLib(Given(lib["master"], op)), pc' # "info"
  PROVE  OwnWhole'
  <1>1. lib["master"] \in Lib /\ lib["master"].jobs = <<>>
    BY SidesAre DEF TypeOK, MasterJobs
  <1>2. Given(lib["master"], op).jobs = IF lib["master"].open THEN <<op>> ELSE <<>>
    BY <1>1, GivenFirst
  <1>3. MasterJobs' = Given(lib["master"], op).jobs
    BY MasterLibIs
  <1>4. MasterJobs' = <<>> \/ MasterJobs' = <<op>>
    BY <1>2, <1>3
  <1>5. op # Burn /\ Burn' = Burn
    BY Constants
  <1> QED
    BY <1>4, <1>5 DEF OwnWhole

LEMMA OwnWholePhone ==
  ASSUME IInv, OwnWhole, Phone
  PROVE  OwnWhole'
  <1>0. TypeOK
    BY DEF IInv
  <1>1. CASE OtaCheck
    <2>1. PICK l \in {Closed, Opened} : MasterLib(l)
      BY <1>1 DEF OtaCheck, NoRoom, Alone, TwsOtaOpen
    <2>2. pc' # "info"
      BY <1>1 DEF OtaCheck, NoRoom, Alone, TwsOtaOpen, waitVars
    <2> QED
      BY <1>0, <2>1, <2>2, MasterLibIs, NoJobs, OwnWholeClosed
  <1>2. CASE TransData /\ ~WritePacket
    BY <1>2, OwnWholeKept DEF TransData
  <1>3. CASE TransData /\ WritePacket
    <2>1. MasterJobs = <<>> /\ Write(want) \in Jobs \ {Burn} /\ pc' # "info"
      BY <1>3, KindsOfJob DEF TransData, IInv, JobsOK, Jobs
    <2> QED
      BY <1>0, <1>3, <2>1, OwnWholeGiven DEF WritePacket
  <1>4. CASE CheckCrc
    <2>1. /\ MasterJobs = <<>> /\ Verify \in Jobs \ {Burn} /\ pc' # "info"
      BY <1>4, KindsOfJob DEF CheckCrc, IInv, JobsOK, Jobs
    <2>2. lib' = lib \/ MasterLib(Given(lib["master"], Verify))
      BY <1>4 DEF CheckCrc
    <2> QED
      BY <1>0, <2>1, <2>2, OwnWholeGiven, OwnWholeKept
  <1>5. CASE PhoneLeaves
    <2>1. MasterLib(Closed)
      BY <1>5 DEF PhoneLeaves
    <2> QED
      BY <1>0, <2>1, MasterLibIs, NoJobs, OwnWholeClosed
  <1> QED
    BY <1>1, <1>2, <1>3, <1>4, <1>5 DEF Phone

LEMMA OwnWholeMaster ==
  ASSUME IInv, OwnWhole, Master
  PROVE  OwnWhole'
  <1>0. TypeOK /\ JobsOK
    BY DEF IInv
  <1>1. CASE StartWaits
    <2>1. lib' = lib \/ MasterLib(Closed)
      BY <1>1 DEF StartWaits
    <2>2. pc' # "info"
      BY <1>1 DEF StartWaits
    <2> QED
      BY <1>0, <2>1, <2>2, MasterLibIs, NoJobs, OwnWholeClosed, OwnWholeKept
  <1>2. CASE DataWaits /\ ~WritePacket
    BY <1>2, OwnWholeKept DEF DataWaits
  <1>3. CASE DataWaits /\ WritePacket
    <2>1. MasterJobs = <<>> /\ Write(want) \in Jobs \ {Burn} /\ pc' # "info"
      BY <1>3, KindsOfJob DEF DataWaits, IInv, JobsOK, DataIsPacket, Jobs
    <2> QED
      BY <1>0, <1>3, <2>1, OwnWholeGiven DEF WritePacket
  <1>4. CASE LastWaits \/ MasterReceives
    <2>1. lib' = lib /\ (pc' = "info" => pc = "info")
      BY <1>4 DEF LastWaits, MasterReceives
    <2> QED
      BY <2>1, OwnWholeKept
  <1>5. CASE VerifyWaits
    <2>1. /\ MasterJobs = <<>> /\ Verify \in Jobs \ {Burn} /\ pc' # "info"
      BY <1>5, KindsOfJob DEF VerifyWaits, IInv, JobsOK, Jobs
    <2>2. lib' = lib \/ MasterLib(Given(lib["master"], Verify))
      BY <1>5 DEF VerifyWaits
    <2> QED
      BY <1>0, <2>1, <2>2, OwnWholeGiven, OwnWholeKept
  <1>6. CASE InfoWaits
    <2>1. lib' = lib \/ MasterLib(Given(lib["master"], Burn))
      BY <1>6 DEF InfoWaits
    <2>2. pc = "info" /\ pc' # "info" /\ MasterJobs = <<>>
      BY <1>0, <1>6 DEF InfoWaits, JobsOK
    <2>3. lib["master"] \in Lib /\ lib["master"].jobs = <<>> /\ Burn \in Jobs
      BY <1>0, <2>2, SidesAre DEF TypeOK, MasterJobs, Jobs
    <2>4. CASE MasterLib(Given(lib["master"], Burn))
      <3>1. /\ MasterJobs' # <<>> => lib["master"].open
            /\ lib'["master"].image = lib["master"].image
        <4> DEFINE l == Given(lib["master"], Burn)
        <4>1. /\ l.image = lib["master"].image
              /\ l.jobs = IF lib["master"].open THEN <<Burn>> ELSE <<>>
          BY <2>3, GivenFirst
        <4> HIDE DEF l
        <4>2. lib'["master"] = l /\ MasterJobs' = l.jobs
          BY <1>0, <2>4, MasterLibIs DEF l
        <4> QED
          BY <4>1, <4>2
      <3> QED
        BY <2>2, <3>1, Constants DEF OwnWhole, Whole
    <2> QED
      BY <2>1, <2>2, <2>4, OwnWholeKept
  <1>7. CASE MasterWrote \/ MasterBurnt
    <2>1. MasterJobs # <<>> /\ lib["master"] \in Lib
      BY <1>0, <1>7, SidesAre DEF MasterWrote, MasterBurnt, Job, TypeOK, MasterJobs
    <2>2. pc' # "info"
      BY <1>0, <1>7, <2>1 DEF MasterWrote, MasterBurnt, JobsOK, waitVars
    <2>3. MasterJobs' = <<>>
      <3>1. Done(lib["master"]).jobs = <<>>
        BY <1>7, MasterJobEnds DEF MasterWrote, MasterBurnt
      <3>2. \A p : Stored(lib["master"], p).jobs = Done(lib["master"]).jobs
        BY <2>1 DEF Stored, Done, Lib
      <3>3. PICK l : MasterLib(l) /\ l.jobs = <<>>
        BY <1>7, <3>1, <3>2, NoJobs DEF MasterWrote, MasterBurnt
      <3> QED
        BY <1>0, <3>3, MasterLibIs
    <2> QED
      BY <2>2, <2>3, OwnWholeClosed DEF MasterJobs
  <1>8. CASE MasterVerified
    <2>2. /\ Done(lib["master"]).jobs = <<>> /\ Done(lib["master"]) \in Lib
          /\ Done(lib["master"]).image = lib["master"].image
      BY <1>8, MasterJobEnds DEF MasterVerified
    <2>3. CASE lib["master"].image # Image
      <3>1. MasterLib(Closed) /\ pc' = pc
        BY <1>8, <2>3 DEF MasterVerified
      <3> QED
        BY <1>0, <3>1, MasterLibIs, NoJobs, OwnWholeClosed
    <2>4. CASE lib["master"].image = Image /\ api
      <3>1. MasterLib(Done(lib["master"]))
        BY <1>8, <2>4 DEF MasterVerified
      <3>2. MasterJobs' = <<>> /\ lib'["master"].image = Image
        BY <1>0, <2>2, <2>4, <3>1, MasterLibIs
      <3> QED
        BY <3>2, Constants DEF OwnWhole, Whole
    <2>5. CASE lib["master"].image = Image /\ ~api
      <3>1. MasterLib(Given(Done(lib["master"]), Burn))
        BY <1>8, <2>5 DEF MasterVerified
      <3>2. lib'["master"].image = Image
        <4>1. Burn \in Jobs
          BY DEF Jobs
        <4>2. Given(Done(lib["master"]), Burn).image = Image
          BY <2>2, <2>5, <4>1, GivenFirst
        <4> QED
          BY <1>0, <3>1, <4>2, MasterLibIs
      <3> QED
        BY <3>2, Constants DEF OwnWhole, Whole
    <2> QED
      BY <2>3, <2>4, <2>5
  <1> QED
    BY <1>1, <1>2, <1>3, <1>4, <1>5, <1>6, <1>7, <1>8 DEF Master

LEMMA OwnWholeStep == IInv /\ OwnWhole /\ [Next]_vars => OwnWhole'
  <1> SUFFICES ASSUME IInv, OwnWhole, [Next]_vars
               PROVE  OwnWhole'
    OBVIOUS
  <1>0. TypeOK
    BY DEF IInv
  <1>1. CASE Slave
    <2>1. /\ pc' = pc
          /\ (\E l : SlaveLib(l)) \/ lib' = lib
      BY <1>1 DEF Slave, SlaveReceives, Handles, Starts, Verifies, SlaveWrote,
                  SlaveVerified, SlaveBurnt, SlaveTimeout, waitVars
    <2>2. lib'["master"] = lib["master"]
      BY <1>0, <2>1, SlaveLibIs
    <2> QED
      BY <2>1, <2>2, OwnWholeKept
  <1>2. CASE UNCHANGED vars \/ Detach \/ Attach
    <2>1. lib' = lib /\ pc' = pc
      BY <1>2 DEF vars, waitVars, Detach, Attach
    <2> QED
      BY <2>1, OwnWholeKept
  <1>3. ASSUME NEW d \in Side, TwsOtaStop(d) \/ Restart(d)
        PROVE  OwnWhole'
    <2>1. /\ lib' = [lib EXCEPT ![d] = Closed] /\ (pc' = "info" => pc = "info")
      BY <1>3 DEF TwsOtaStop, Restart, waitVars
    <2>2. lib'["master"] = lib["master"] \/ lib'["master"] = Closed
      BY <1>0, <2>1, SidesAre DEF TypeOK
    <2> QED
      BY <2>1, <2>2, NoJobs, OwnWholeKept, OwnWholeClosed
  <1> QED
    BY <1>1, <1>2, <1>3, OwnWholePhone, OwnWholeMaster DEF Next, Radio

\* A side burns its boot info only for a bank that holds the whole image (the
\* verification of both banks before it): the master whatever happens, the
\* slave as long as answers are in time and no update begins in the middle of
\* another.
THEOREM WholeIsBurnt ==
  ASSUME Prompt
  PROVE  Spec => []BurnsWhole
  <1>1. Spec => [](IInv /\ OwnWhole)
    <2>1. Init => OwnWhole
      BY SidesAre, NoJobs DEF Init, OwnWhole, Whole, MasterJobs
    <2> QED
      BY TypeInit, TypeStep, OwnWholeStep, <2>1, PTL DEF Spec
  <1>2. IInv /\ OwnWhole /\ (overlap \/ PInv) => BurnsWhole
    <2> SUFFICES ASSUME IInv, OwnWhole, overlap \/ PInv, NEW d \in Side,
                        Burning(d), d = "slave" => ~overlap
                 PROVE  lib[d].image = Image
      BY SidesAre DEF BurnsWhole
    <2>1. lib[d].jobs \in Seq(Jobs)
      BY DEF IInv, TypeOK, Lib
    <2>2. lib[d].jobs # <<>> /\ lib[d].jobs[1] = Burn
      BY <2>1 DEF Burning
    <2>3. CASE d = "master"
      BY <2>2, <2>3 DEF OwnWhole, MasterJobs
    <2>4. CASE d = "slave"
      BY <2>2, <2>4 DEF PInv, BurnOK
    <2> QED
      BY <2>3, <2>4, SidesAre
  <1> QED
    BY Invariants, <1>1, <1>2, PTL

----------------------------------------------------------------------------
(* The slave in step.  Passed is the number of packets that were passed on  *)
(* to the slave when nothing brings it another one.  What is under way says *)
(* which packets it holds; when a packet or its answer was lost, it holds   *)
(* Passed packets or one less, and the master does not pass on another.     *)
Bank    == lib["slave"].image
OwnBank == lib["master"].image
Passed  == IF phone = "waits" /\ want <= NumPackets THEN want ELSE want - 1

SlaveBusy(cmd) == Busy(net["slave"]) /\ Newest(net["slave"]).cmd = cmd
Writes(jobs)   == jobs # <<>> /\ jobs[1].op = "write"
Brings         == SlaveBusy("DATA") \/ Writes(SlaveJobs)
AnswerComes    == sem > 0 \/ Busy(net["master"])
Underway       == AnswerComes \/ Busy(net["slave"]) \/ SlaveJobs # <<>>

\* The phone sends the packet that the own bank waits for.
OwnBankOK ==
  /\ ~lib["master"].open => OwnBank = <<>>
  /\ phone = "out" => OwnBank = <<>> \/ pc = "start"
  /\ phone # "out" => Len(OwnBank) + 1 <= want
  /\ Writes(MasterJobs) => MasterJobs[1].pkt = want
  /\ MasterJobs # <<>> /\ ~Writes(MasterJobs) => want = NumPackets + 1
  /\ pc = "start" => phone = "out" /\ first /\ OwnBank = <<>>
  /\ pc = "data" => phone # "waits"
  /\ pc \in {"last", "verify", "info"} => want = NumPackets + 1

\* The slave is brought the packet that its bank waits for.
BankOK ==
  /\ ~lib["slave"].open => Bank = <<>>
  /\ \A i \in DOMAIN Bank : Bank[i] \in {i, SPOILT}
  /\ SlaveBusy("DATA") /\ lib["slave"].open => Newest(net["slave"]).arg = Len(Bank) + 1
  /\ Writes(SlaveJobs) => SlaveJobs[1].pkt = Len(Bank) + 1

StartOK ==
  /\ SlaveBusy("START") => pc = "start"
  /\ pc = "start" => /\ Busy(net["slave"]) => SlaveBusy("START")
                     /\ SlaveJobs = <<>>
                     /\ AnswerComes => Bank = <<>>
  /\ api /\ first /\ phone # "out" => Bank = <<>>

Follows == api /\ ~first /\ (phone # "out" \/ pc = "data")

StepOK ==
  Follows /\ lib["slave"].open =>
    /\ Len(Bank) \in {Passed - 1, Passed}
    /\ Underway => Len(Bank) = IF Brings THEN Passed - 1 ELSE Passed

SInv == OwnBankOK /\ BankOK /\ StartOK /\ StepOK

\* The types that the steps need.
LEMMA StepTypes ==
  ASSUME IInv
  PROVE  /\ Bank \in Seq(0..NumPackets) /\ OwnBank \in Seq(0..NumPackets)
         /\ Len(Bank) \in Nat /\ Len(OwnBank) \in Nat
         /\ want \in Int /\ NumPackets \in Nat /\ sem \in Nat
  BY SidesAre, Numbers DEF IInv, TypeOK, Lib, Bank, OwnBank

LEMMA OpOfJob ==
  /\ Verify.op # "write" /\ Burn.op # "write"
  /\ \A p : Write(p).op = "write" /\ Write(p).pkt = p
  BY DEF Verify, Burn, Write

\* A step that leaves the own bank and what it waits for alone.
LEMMA OwnKept ==
  ASSUME OwnBankOK, lib'["master"] = lib["master"], phone' = phone, want' = want,
         pc' = pc, first' = first
  PROVE  OwnBankOK'
  <1>1. MasterJobs' = MasterJobs /\ OwnBank' = OwnBank
    BY DEF MasterJobs, OwnBank
  <1> QED
    BY <1>1 DEF OwnBankOK, Writes

\* A step that ends the update task of the master, or its start.
LEMMA OwnClosed ==
  ASSUME IInv, OwnBankOK, lib'["master"] = Closed, want' = want,
         phone' # "out" => phone # "out", pc' = pc \/ pc' = "none",
         pc' = "start" => first' /\ phone' = "out",
         pc' = "data" => phone' # "waits"
  PROVE  OwnBankOK'
  <1>1. MasterJobs' = <<>> /\ OwnBank' = <<>> /\ Len(OwnBank') = 0
    BY DEF MasterJobs, OwnBank, Closed
  <1>2. phone' # "out" => 1 <= want
    BY StepTypes DEF OwnBankOK
  <1>3. pc' \in {"last", "verify", "info"} => want = NumPackets + 1
    BY DEF OwnBankOK
  <1> QED
    BY <1>1, <1>2, <1>3 DEF OwnBankOK, Writes

\* A step that leaves the slave alone and brings nothing under way.
LEMMA SlaveKept ==
  ASSUME IInv, PInv, BankOK, StartOK, StepOK, lib'["slave"] = lib["slave"],
         (Busy(net["slave"]))' => /\ Busy(net["slave"])
                                  /\ (Newest(net["slave"]))' = Newest(net["slave"]),
         AnswerComes' => AnswerComes,
         pc' = "start" <=> pc = "start",
         api' /\ first' /\ phone' # "out" => Bank = <<>>,
         Follows' => Follows /\ Passed' = Passed
  PROVE  BankOK' /\ StartOK' /\ StepOK'
  <1>1. SlaveJobs' = SlaveJobs /\ Bank' = Bank
    BY DEF SlaveJobs, Bank
  <1>2. \A cmd : (SlaveBusy(cmd))' <=> (SlaveBusy(cmd) /\ (Busy(net["slave"]))')
    BY DEF SlaveBusy
  <1>3. BankOK'
    <2>1. (SlaveBusy("DATA"))' => SlaveBusy("DATA")
      BY <1>2
    <2> QED
      BY <1>1, <2>1 DEF BankOK, Writes, SlaveBusy
  <1>4. StartOK'
    <2>1. (SlaveBusy("START"))' => SlaveBusy("START")
      BY <1>2
    <2>2. (Busy(net["slave"]))' /\ SlaveBusy("START") => (SlaveBusy("START"))'
      BY <1>2
    <2> QED
      BY <1>1, <2>1, <2>2 DEF StartOK
  <1>5. Underway' => Underway /\ (Brings' <=> Brings)
    <2>1. AnswerComes \/ SlaveJobs # <<>> => ~Busy(net["slave"])
      BY StepTypes DEF AnswerComes, PInv, OneAtATime
    <2>2. AnswerComes \/ Busy(net["slave"]) => SlaveJobs = <<>>
      BY StepTypes DEF AnswerComes, PInv, OneAtATime
    <2> QED
      BY <1>1, <1>2, <2>1, <2>2 DEF Underway, Brings, SlaveBusy, Writes
  <1>6. StepOK'
    <2> SUFFICES ASSUME Follows', lib["slave"].open
                 PROVE  /\ Len(Bank) \in {Passed - 1, Passed}
                        /\ Underway' => Len(Bank) = IF Brings' THEN Passed - 1 ELSE Passed
      BY <1>1 DEF StepOK
    <2> QED
      BY <1>5 DEF StepOK
  <1> QED
    BY <1>3, <1>4, <1>6

\* A step that ends the update task of the slave, or starts it anew.
LEMMA SlaveClosed ==
  ASSUME IInv, PInv, BankOK, StartOK, StepOK,
         lib'["slave"] = Closed,
         (Busy(net["slave"]))' => /\ Busy(net["slave"])
                                  /\ (Newest(net["slave"]))' = Newest(net["slave"]),
         pc' = pc
  PROVE  BankOK' /\ StartOK' /\ StepOK'
  <1>1. SlaveJobs' = <<>> /\ Bank' = <<>> /\ ~lib'["slave"].open
    BY NoJobs DEF SlaveJobs, Bank, Closed
  <1>2. \A cmd : (SlaveBusy(cmd))' <=> (SlaveBusy(cmd) /\ (Busy(net["slave"]))')
    BY DEF SlaveBusy
  <1>3. BankOK'
    BY <1>1 DEF BankOK, Writes
  <1>4. StartOK'
    <2>1. (SlaveBusy("START"))' => SlaveBusy("START")
      BY <1>2
    <2>2. (Busy(net["slave"]))' /\ SlaveBusy("START") => (SlaveBusy("START"))'
      BY <1>2
    <2> QED
      BY <1>1, <2>1, <2>2 DEF StartOK
  <1>5. StepOK'
    BY <1>1 DEF StepOK
  <1> QED
    BY <1>3, <1>4, <1>5

\* The master sends a command, when nothing else is under way, to a slave that
\* has all that was passed on.
LEMMA MasterSends ==
  ASSUME IInv, PInv, BankOK, lib'["slave"] = lib["slave"], last' = last, sem' = 0,
         ~Busy(net["slave"]), ~Busy(net["master"]), SlaveJobs = <<>>,
         NEW cmd \in Command \ {"START"}, NEW arg, Fits(cmd, arg), NEW ok \in BOOLEAN,
         Send("master", cmd, arg, ok),
         pc' # "start", ~first',
         cmd = "DATA" /\ lib["slave"].open => arg = Len(Bank) + 1,
         Follows' /\ lib["slave"].open =>
            Len(Bank) = IF cmd = "DATA" THEN Passed' - 1 ELSE Passed'
  PROVE  BankOK' /\ StartOK' /\ StepOK'
  <1>1. SlaveJobs' = <<>> /\ Bank' = Bank
    BY DEF SlaveJobs, Bank
  <1>2. /\ ~(Busy(net["master"]))'
        /\ (Busy(net["slave"]))' => /\ (Newest(net["slave"]))'.cmd = cmd
                                    /\ (Newest(net["slave"]))'.arg = arg
    <2>1. /\ net'["master"] = net["master"]
          /\ ok => /\ Busy(net'["slave"]) /\ Newest(net'["slave"]).cmd = cmd
                   /\ Newest(net'["slave"]).arg = arg
          /\ ~ok => net'["slave"] = net["slave"]
      BY SidesAre, SendKeepsQueues DEF PInv
    <2> QED
      BY <2>1 DEF Busy, Newest
  <1>3. ~(SlaveBusy("START"))' /\ ~AnswerComes'
    BY <1>2 DEF SlaveBusy, AnswerComes
  <1>4. /\ (SlaveBusy("DATA"))' => cmd = "DATA" /\ (Newest(net["slave"]))'.arg = arg
        /\ (Busy(net["slave"]))' /\ cmd = "DATA" => (SlaveBusy("DATA"))'
    BY <1>2 DEF SlaveBusy
  <1>5. BankOK'
    BY <1>1, <1>4 DEF BankOK, Writes
  <1>6. StartOK'
    BY <1>3 DEF StartOK
  <1>7. StepOK'
    <2> SUFFICES ASSUME Follows', lib["slave"].open
                 PROVE  /\ Len(Bank) \in {Passed' - 1, Passed'}
                        /\ Underway' => Len(Bank) = IF Brings' THEN Passed' - 1 ELSE Passed'
      BY <1>1 DEF StepOK
    <2>1. Underway' => (Busy(net["slave"]))'
      BY <1>1, <1>3 DEF Underway
    <2>2. Brings' <=> (SlaveBusy("DATA"))'
      BY <1>1 DEF Brings, Writes
    <2>3. Underway' => (Brings' <=> cmd = "DATA")
      BY <1>4, <2>1, <2>2
    <2> QED
      BY <2>3
  <1> QED
    BY <1>5, <1>6, <1>7

\* The facts about the queues that SlaveKept asks for, when they stay.
LEMMA NothingNew ==
  ASSUME IInv, PInv, net' = net, last' = last, sem' = sem \/ sem' = 0
  PROVE  /\ (Busy(net["slave"]))' => /\ Busy(net["slave"])
                                     /\ (Newest(net["slave"]))' = Newest(net["slave"])
         /\ AnswerComes' => AnswerComes
  <1>1. /\ (Busy(net["slave"]))' <=> Busy(net["slave"])
        /\ (Busy(net["master"]))' <=> Busy(net["master"])
        /\ (Newest(net["slave"]))' = Newest(net["slave"])
    BY QueuesSame, SidesAre DEF PInv
  <1> QED
    BY <1>1 DEF AnswerComes

LEMMA StepOtaCheck ==
  ASSUME Prompt, IInv, PInv, SInv, OtaCheck, ~overlap'
  PROVE  SInv'
  <1>1. /\ TypeOK /\ pc = "none" /\ Quiet /\ last' = last
        /\ OwnBankOK /\ BankOK /\ StartOK /\ StepOK
    BY DEF OtaCheck, IInv, SInv
  <1>2. /\ ~Busy(net["slave"]) /\ ~Busy(net["master"]) /\ SlaveJobs = <<>>
    BY <1>1, QuietIsIdle
  <1>3. CASE NoRoom
    <2>1. /\ MasterLib(Closed) /\ phone' = "out" /\ net' = net /\ pc' = pc
          /\ sem' = sem /\ api' = api /\ first' = first /\ want' = want
      BY <1>3 DEF NoRoom, PhoneIs, netVars, waitVars
    <2>2. lib'["master"] = Closed /\ lib'["slave"] = lib["slave"]
      BY <1>1, <2>1, MasterLibIs
    <2>3. OwnBankOK'
      BY <1>1, <2>1, <2>2, OwnClosed
    <2>4. ~Follows'
      BY <1>1, <2>1 DEF Follows
    <2> QED
      BY <1>1, <2>1, <2>2, <2>3, <2>4, NothingNew, SlaveKept DEF SInv
  <1>4. CASE Alone
    <2>1. /\ MasterLib(Opened) /\ phone' = "sends" /\ want' = 1 /\ net' = net
          /\ pc' = pc /\ sem' = sem /\ api' = FALSE
      BY <1>4 DEF Alone, PhoneBegins, PhoneIs, netVars
    <2>2. lib'["master"] = Opened /\ lib'["slave"] = lib["slave"]
      BY <1>1, <2>1, MasterLibIs
    <2>3. OwnBankOK'
      <3>1. MasterJobs' = <<>> /\ OwnBank' = <<>> /\ Len(OwnBank') = 0
        BY <2>2 DEF MasterJobs, OwnBank, Opened
      <3> QED
        BY <1>1, <2>1, <2>2, <3>1, NoJobs DEF OwnBankOK, Writes
    <2>4. ~Follows'
      BY <2>1 DEF Follows
    <2> QED
      BY <1>1, <2>1, <2>2, <2>3, <2>4, NothingNew, SlaveKept DEF SInv
  <1>5. CASE TwsOtaOpen
    <2>0. PICK ok \in BOOLEAN :
            /\ Send("master", "START", 0, ok)
            /\ pc' = IF ok THEN "start" ELSE "none"
            /\ MasterLib(IF ok THEN Opened ELSE Closed)
      BY <1>5 DEF TwsOtaOpen
    <2>1. api' = TRUE /\ sem' = 0 /\ phone' = "out" /\ first' = TRUE
      BY <1>5 DEF TwsOtaOpen, PhoneIs
    <2>2. /\ lib'["slave"] = lib["slave"] /\ SlaveJobs' = <<>> /\ Bank' = Bank
          /\ MasterJobs' = <<>> /\ OwnBank' = <<>>
      <3>1. /\ Closed.jobs = <<>> /\ Closed.image = <<>>
            /\ Opened.jobs = <<>> /\ Opened.image = <<>>
        BY DEF Closed, Opened
      <3>2. lib'["master"] = IF ok THEN Opened ELSE Closed
        BY <1>1, <2>0, MasterLibIs
      <3>3. lib'["slave"] = lib["slave"]
        BY <1>1, <2>0, MasterLibIs
      <3> QED
        BY <1>2, <3>1, <3>2, <3>3 DEF SlaveJobs, Bank, MasterJobs, OwnBank
    <2>3. /\ ~(Busy(net["master"]))'
          /\ (Busy(net["slave"]))' => ok /\ (Newest(net["slave"]))'.cmd = "START"
      <3>1. Fits("START", 0) /\ "master" \in Side
        BY DEF Fits, Command, Side
      <3>2. /\ net'["master"] = net["master"]
            /\ ok => Busy(net'["slave"]) /\ Newest(net'["slave"]).cmd = "START"
            /\ ~ok => net'["slave"] = net["slave"]
        BY <1>1, <1>2, <2>0, <3>1, SidesAre, SendKeepsQueues DEF PInv
      <3> QED
        BY <1>2, <3>2
    <2>4. OwnBankOK'
      BY <2>0, <2>1, <2>2 DEF OwnBankOK, Writes
    <2>5. ~(SlaveBusy("DATA"))' /\ ~AnswerComes'
          /\ ((Busy(net["slave"]))' <=> (SlaveBusy("START"))')
      BY <2>1, <2>3 DEF SlaveBusy, AnswerComes
    <2>6. BankOK'
      BY <1>1, <2>2, <2>5 DEF BankOK, Writes
    <2>7. StartOK'
      <3>1. (Busy(net["slave"]))' => pc' = "start"
        BY <2>0, <2>3
      <3> QED
        BY <2>1, <2>2, <2>5, <3>1 DEF StartOK
    <2>8. StepOK'
      BY <2>1 DEF StepOK, Follows
    <2> QED
      BY <2>4, <2>6, <2>7, <2>8 DEF SInv
  <1> QED
    BY <1>3, <1>4, <1>5 DEF OtaCheck

LEMMA StepStartWaits ==
  ASSUME Prompt, IInv, PInv, SInv, StartWaits
  PROVE  SInv'
  <1>1. /\ TypeOK /\ pc = "start" /\ pc' = "none" /\ net' = net /\ last' = last
        /\ api' = api /\ first' = first /\ first /\ phone = "out"
        /\ MasterJobs = <<>> /\ OwnBank = <<>>
        /\ OwnBankOK /\ BankOK /\ StartOK /\ StepOK
    BY DEF StartWaits, IInv, JobsOK, netVars, SInv, OwnBankOK
  <1>2. ~Follows'
    BY <1>1 DEF Follows
  <1>3. /\ lib'["slave"] = lib["slave"] /\ OwnBankOK'
        /\ sem' = sem \/ sem' = 0
        /\ ~Busy(net["slave"])
        /\ phone' # "out" => Bank = <<>>
    <2>1. CASE Answered /\ sem' = sem - 1 /\ PhoneBegins /\ UNCHANGED lib
      <3>1. want' = 1 /\ phone' = "sends" /\ lib' = lib /\ sem > 0
        BY <2>1 DEF PhoneBegins, PhoneIs, Answered
      <3>2. MasterJobs' = <<>> /\ OwnBank' = <<>> /\ Len(OwnBank') = 0
        BY <1>1, <3>1 DEF MasterJobs, OwnBank
      <3>3. OwnBankOK'
        BY <1>1, <3>1, <3>2 DEF OwnBankOK, Writes
      <3>4. ~Busy(net["slave"]) /\ sem' = 0
        BY <2>1, <3>1, TokenIsAll
      <3>5. Bank = <<>>
        BY <1>1, <3>1 DEF StartOK, AnswerComes
      <3> QED
        BY <3>1, <3>3, <3>4, <3>5
    <2>2. CASE TimedOut /\ MasterLib(Closed) /\ UNCHANGED <<sem, want, phone>>
      <3>1. ~Busy(net["slave"])
        BY <2>2, QuietIsStill DEF TimedOut, Still
      <3>2. lib'["master"] = Closed /\ lib'["slave"] = lib["slave"]
        BY <1>1, <2>2, MasterLibIs
      <3>3. OwnBankOK'
        BY <1>1, <2>2, <3>2, OwnClosed
      <3> QED
        BY <1>1, <2>2, <3>1, <3>2, <3>3
    <2> QED
      BY <2>1, <2>2 DEF StartWaits
  <1>4. ~(Busy(net["slave"]))'
    BY <1>1, <1>3 DEF Busy
  <1>5. SlaveJobs' = SlaveJobs /\ Bank' = Bank
    BY <1>3 DEF SlaveJobs, Bank
  <1>6. BankOK' /\ StartOK' /\ StepOK'
    <2>1. ~(SlaveBusy("START"))' /\ ~(SlaveBusy("DATA"))'
      BY <1>4 DEF SlaveBusy
    <2>2. BankOK'
      BY <1>1, <1>3, <1>5, <2>1 DEF BankOK, Writes
    <2>3. StartOK'
      BY <1>1, <1>3, <1>5, <2>1 DEF StartOK
    <2> QED
      BY <1>2, <2>2, <2>3 DEF StepOK
  <1> QED
    BY <1>3, <1>6 DEF SInv

\* The phone's packet, which the own bank and the slave both wait for.
LEMMA StepWritePacket ==
  ASSUME IInv, PInv, SInv, WritePacket, pc' = "none", MasterJobs = <<>>,
         pc # "start", phone # "waits", want \in 1..NumPackets,
         api => Still \/ sem > 0,
         api /\ lib["slave"].open /\ (phone # "out" \/ pc = "data") =>
            Len(Bank) + 1 = want,
         phone = "out" => pc = "data"
  PROVE  SInv'
  <1>1. /\ TypeOK /\ MasterLib(Given(lib["master"], Write(want)))
        /\ first' = FALSE /\ last' = last /\ api' = api /\ want' = want
        /\ phone' = IF phone = "out" THEN "out" ELSE "waits"
        /\ OwnBankOK /\ BankOK /\ StartOK /\ StepOK
    BY DEF WritePacket, IInv, PhoneHears, SInv
  <1>2. /\ MasterJobs' # <<>> => MasterJobs'[1] = Write(want)
        /\ lib'["slave"] = lib["slave"] /\ OwnBank' = OwnBank
        /\ lib'["master"].open = lib["master"].open
    <2>1. lib["master"] \in Lib /\ Write(want) \in Jobs
      BY <1>1, SidesAre, JobTypes DEF TypeOK
    <2>2. /\ MasterJobs' # <<>> => MasterJobs'[1] = Write(want)
          /\ lib'["slave"] = lib["slave"] /\ OwnBank' = OwnBank
      BY <1>1, <2>1, MasterGets DEF OwnBank
    <2>3. lib'["master"] = Given(lib["master"], Write(want))
      BY <1>1, MasterLibIs
    <2>4. Given(lib["master"], Write(want)).open = lib["master"].open
      BY <2>1, GivenFirst, <1>1 DEF MasterJobs
    <2> QED
      BY <2>2, <2>3, <2>4
  <1>3. OwnBankOK'
    <2>1. MasterJobs' # <<>> => Writes(MasterJobs)' /\ MasterJobs'[1].pkt = want
      BY <1>2, OpOfJob DEF Writes
    <2> QED
      BY <1>1, <1>2, <2>1 DEF OwnBankOK, Writes
  <1>4. CASE ~api
    <2>1. net' = net /\ sem' = sem
      BY <1>4 DEF WritePacket, netVars
    <2> QED
      BY <1>1, <1>2, <1>3, <1>4, <2>1, NothingNew, SlaveKept DEF SInv, Follows
  <1>5. CASE api
    <2>0. PICK ok \in BOOLEAN : Send("master", "DATA", want, ok)
      BY <1>5 DEF WritePacket
    <2>1. sem' = 0
      BY <1>5 DEF WritePacket
    <2>2. ~Busy(net["slave"]) /\ ~Busy(net["master"]) /\ SlaveJobs = <<>>
      BY <1>5, TokenIsAll DEF Still
    <2>3. lib["slave"].open => want = Len(Bank) + 1
      BY <1>5
    <2>4. Follows' /\ lib["slave"].open => Len(Bank) = Passed' - 1
      <3>1. Follows' => phone # "out" /\ Passed' = want
        BY <1>1 DEF Follows, Passed
      <3> QED
        BY <1>5, <2>3, <3>1, StepTypes
    <2>5. Fits("DATA", want) /\ "DATA" \in Command \ {"START"}
      BY DEF Fits, Command
    <2> QED
      BY <1>1, <1>2, <1>3, <2>0, <2>1, <2>2, <2>3, <2>4, <2>5, MasterSends DEF SInv
  <1> QED
    BY <1>4, <1>5

LEMMA StepTransData ==
  ASSUME Prompt, IInv, PInv, SInv, TransData
  PROVE  SInv'
  <1>1. /\ pc = "none" /\ phone = "sends" /\ want \in 1..NumPackets
        /\ MasterJobs = <<>> /\ OwnBankOK /\ BankOK /\ StartOK /\ StepOK
    BY DEF TransData, IInv, JobsOK, SInv
  <1>2. CASE api /\ ~first
    <2>1. /\ pc' = "data" /\ net' = net /\ last' = last /\ lib' = lib
          /\ sem' = sem /\ api' = api /\ first' = first /\ want' = want
          /\ phone' = phone
      BY <1>2 DEF TransData, netVars, phoneVars
    <2>2. MasterJobs' = MasterJobs /\ OwnBank' = OwnBank
      BY <2>1 DEF MasterJobs, OwnBank
    <2>3. OwnBankOK'
      BY <1>1, <2>1, <2>2 DEF OwnBankOK, Writes
    <2>4. Follows /\ Passed' = Passed
      BY <1>1, <1>2, <2>1 DEF Follows, Passed
    <2> QED
      BY <1>1, <1>2, <2>1, <2>3, <2>4, NothingNew, SlaveKept DEF SInv
  <1>3. CASE ~(api /\ ~first)
    <2>1. WritePacket /\ pc' = "none"
      BY <1>1, <1>3 DEF TransData
    <2>2. api => Still /\ want = 1 /\ Bank = <<>>
      BY <1>1, <1>3 DEF PInv, WaitsOK, StartOK
    <2>3. api => Len(Bank) + 1 = want
      BY <2>2
    <2> QED
      BY <1>1, <2>1, <2>2, <2>3, StepWritePacket
  <1> QED
    BY <1>2, <1>3

LEMMA StepDataWaits ==
  ASSUME Prompt, IInv, PInv, SInv, DataWaits
  PROVE  SInv'
  <1>1. /\ pc = "data" /\ pc' = "none" /\ MasterJobs = <<>> /\ ~first /\ api
        /\ want \in 1..NumPackets /\ phone # "waits"
        /\ OwnBankOK /\ BankOK /\ StartOK /\ StepOK
    BY DEF DataWaits, IInv, JobsOK, DataIsPacket, PInv, WaitsOK, SInv, OwnBankOK
  <1>2. CASE Answered /\ WritePacket
    <2>1. sem > 0
      BY <1>2 DEF Answered
    <2>2. /\ ~Brings /\ Underway
      BY <2>1, TokenIsAll DEF Brings, SlaveBusy, Writes, Underway, AnswerComes
    <2>3. lib["slave"].open => Len(Bank) = Passed
      BY <1>1, <2>2 DEF StepOK, Follows
    <2>4. Passed = want - 1
      BY <1>1 DEF Passed
    <2>5. lib["slave"].open => Len(Bank) + 1 = want
      BY <2>3, <2>4, StepTypes
    <2> QED
      BY <1>1, <1>2, <2>1, <2>5, StepWritePacket
  <1>3. CASE ~(Answered /\ WritePacket)
    <2>1. /\ net' = net /\ last' = last /\ lib' = lib /\ sem' = sem /\ api' = api
          /\ first' = first /\ want' = want /\ phone' = phone
      BY <1>3 DEF DataWaits, netVars, phoneVars
    <2>2. MasterJobs' = MasterJobs /\ OwnBank' = OwnBank
      BY <2>1 DEF MasterJobs, OwnBank
    <2>3. OwnBankOK'
      BY <1>1, <2>1, <2>2 DEF OwnBankOK, Writes
    <2>4. Follows /\ Passed' = Passed
      BY <1>1, <2>1 DEF Follows, Passed
    <2> QED
      BY <1>1, <2>1, <2>3, <2>4, NothingNew, SlaveKept DEF SInv
  <1> QED
    BY <1>2, <1>3

\* The own bank is full, and its task gets the next job, if any.
LEMMA OwnGoesOn ==
  ASSUME IInv, OwnBankOK, NEW l \in Lib, l.jobs = <<>>, l.image = OwnBank,
         l.open = lib["master"].open, NEW op \in {Verify, Burn},
         lib'["master"] = Given(l, op) \/ lib'["master"] = l,
         want = NumPackets + 1, want' = want, pc # "start", pc' \notin {"start", "data"},
         phone' = "out" <=> phone = "out"
  PROVE  OwnBankOK'
  <1>1. op \in Jobs /\ op.op # "write"
    BY JobTypes, OpOfJob
  <1>2. /\ lib'["master"].jobs = <<>> \/ lib'["master"].jobs = <<op>>
        /\ lib'["master"].image = OwnBank /\ lib'["master"].open = lib["master"].open
    <2>1. /\ Given(l, op).open = l.open /\ Given(l, op).image = l.image
          /\ Given(l, op).jobs = <<>> \/ Given(l, op).jobs = <<op>>
      BY <1>1, GivenFirst
    <2> QED
      BY <2>1
  <1>3. OwnBank' = OwnBank /\ ~Writes(MasterJobs)'
    BY <1>1, <1>2 DEF OwnBank, MasterJobs, Writes
  <1> QED
    BY <1>2, <1>3 DEF OwnBankOK

LEMMA StepCheckCrc ==
  ASSUME IInv, PInv, SInv, CheckCrc
  PROVE  SInv'
  <1>1. /\ TypeOK /\ pc = "none" /\ phone = "sends" /\ want = NumPackets + 1
        /\ net' = net /\ last' = last /\ sem' = sem /\ api' = api
        /\ first' = first /\ want' = want /\ MasterJobs = <<>>
        /\ OwnBankOK /\ BankOK /\ StartOK /\ StepOK
    BY DEF CheckCrc, IInv, JobsOK, netVars, SInv
  <1>2. lib["master"] \in Lib /\ lib["master"].jobs = <<>> /\ lib["master"].image = OwnBank
    BY <1>1, SidesAre DEF TypeOK, MasterJobs, OwnBank
  <1>3. ~(want <= NumPackets)
    BY <1>1, StepTypes
  <1>4. /\ pc' = "last" \/ (pc' = "none" /\ ~api')
        /\ phone' = "sends" \/ (~api' /\ phone' # "out")
        /\ lib'["slave"] = lib["slave"]
        /\ lib'["master"] = lib["master"] \/ lib'["master"] = Given(lib["master"], Verify)
    <2>1. CASE api
      <3>1. pc' = "last" /\ lib' = lib /\ phone' = phone
        BY <2>1 DEF CheckCrc
      <3> QED
        BY <1>1, <3>1
    <2>2. CASE ~api
      <3>1. MasterLib(Given(lib["master"], Verify)) /\ pc' = "none" /\ phone' = "waits"
        BY <1>1, <2>2 DEF CheckCrc, PhoneHears
      <3> QED
        BY <1>1, <2>2, <3>1, MasterLibIs
    <2> QED
      BY <2>1, <2>2
  <1>5. OwnBankOK'
    BY <1>1, <1>2, <1>4, OwnGoesOn
  <1>6. Follows' => Follows /\ Passed' = Passed
    BY <1>1, <1>3, <1>4 DEF Follows, Passed
  <1>7. api' /\ first' /\ phone' # "out" => Bank = <<>>
    BY <1>1 DEF StartOK
  <1> QED
    BY <1>1, <1>4, <1>5, <1>6, <1>7, NothingNew, SlaveKept DEF SInv

\* The master stops waiting, and has done nothing.
LEMMA StepGivesUp ==
  ASSUME IInv, PInv, SInv, pc # "start", pc' = "none", MasterJobs = <<>>, ~first,
         net' = net, last' = last, lib' = lib, sem' = sem, api' = api,
         first' = first, want' = want, want = NumPackets + 1,
         phone' = "out" <=> phone = "out"
  PROVE  SInv'
  <1>1. OwnBankOK /\ BankOK /\ StartOK /\ StepOK
    BY DEF SInv
  <1>2. lib["master"] \in Lib /\ lib["master"].jobs = <<>> /\ lib["master"].image = OwnBank
    BY SidesAre DEF IInv, TypeOK, MasterJobs, OwnBank
  <1>3. OwnBankOK'
    BY <1>1, <1>2, OwnGoesOn
  <1>4. ~(want <= NumPackets)
    BY StepTypes
  <1>5. Follows' => Follows /\ Passed' = Passed
    BY <1>4 DEF Follows, Passed
  <1> QED
    BY <1>1, <1>3, <1>5, NothingNew, SlaveKept DEF SInv

LEMMA StepLastWaits ==
  ASSUME Prompt, IInv, PInv, SInv, LastWaits
  PROVE  SInv'
  <1>1. /\ TypeOK /\ pc = "last" /\ MasterJobs = <<>> /\ ~first /\ api
        /\ last' = last /\ lib' = lib /\ api' = api /\ first' = first
        /\ want' = want /\ phone' = phone /\ want = NumPackets + 1
        /\ OwnBankOK /\ BankOK /\ StartOK /\ StepOK
    BY DEF LastWaits, IInv, JobsOK, PInv, WaitsOK, phoneVars, SInv, OwnBankOK
  <1>2. CASE /\ Answered /\ sem' = 0
             /\ \E ok \in BOOLEAN : /\ Send("master", "VERIFY", 0, ok)
                                    /\ pc' = IF ok THEN "verify" ELSE "none"
    <2>0. PICK ok \in BOOLEAN : /\ Send("master", "VERIFY", 0, ok)
                                /\ pc' = IF ok THEN "verify" ELSE "none"
      BY <1>2
    <2>1. sem > 0
      BY <1>2 DEF Answered
    <2>2. ~Busy(net["slave"]) /\ ~Busy(net["master"]) /\ SlaveJobs = <<>>
      BY <2>1, TokenIsAll
    <2>3. Underway /\ ~Brings
      BY <2>1, <2>2 DEF Underway, AnswerComes, Brings, SlaveBusy, Writes
    <2>4. Follows' /\ lib["slave"].open => Len(Bank) = Passed'
      <3>1. Follows' => Follows /\ Passed' = Passed
        BY <1>1, <2>0 DEF Follows, Passed
      <3> QED
        BY <1>1, <2>3, <3>1 DEF StepOK
    <2>5. OwnBankOK'
      <3>1. MasterJobs' = MasterJobs /\ OwnBank' = OwnBank
        BY <1>1 DEF MasterJobs, OwnBank
      <3> QED
        BY <1>1, <2>0, <3>1 DEF OwnBankOK, Writes
    <2>6. Fits("VERIFY", 0) /\ "VERIFY" \in Command \ {"START"} /\ "VERIFY" # "DATA"
      BY DEF Fits, Command
    <2>7. BankOK' /\ StartOK' /\ StepOK'
      BY <1>1, <1>2, <2>0, <2>2, <2>4, <2>6, MasterSends
    <2> QED
      BY <2>5, <2>7 DEF SInv
  <1>3. CASE TimedOut /\ pc' = "none" /\ UNCHANGED <<netVars, sem, faults>>
    <2>1. net' = net /\ sem' = sem
      BY <1>3 DEF netVars
    <2> QED
      BY <1>1, <1>3, <2>1, StepGivesUp
  <1> QED
    BY <1>2, <1>3 DEF LastWaits

LEMMA StepVerifyWaits ==
  ASSUME Prompt, IInv, PInv, SInv, VerifyWaits
  PROVE  SInv'
  <1>1. /\ TypeOK /\ pc = "verify" /\ pc' = "none" /\ MasterJobs = <<>> /\ ~first /\ api
        /\ net' = net /\ last' = last /\ api' = api /\ first' = first /\ want' = want
        /\ want = NumPackets + 1
        /\ OwnBankOK /\ BankOK /\ StartOK /\ StepOK
    BY DEF VerifyWaits, IInv, JobsOK, PInv, WaitsOK, netVars, SInv, OwnBankOK
  <1>2. CASE /\ Answered /\ sem' = sem - 1
             /\ MasterLib(Given(lib["master"], Verify)) /\ PhoneHears
    <2>1. sem' = 0
      BY <1>2, TokenIsAll DEF Answered
    <2>2. phone' = IF phone = "out" THEN "out" ELSE "waits"
      BY <1>2 DEF PhoneHears
    <2>3. lib["master"] \in Lib /\ lib["master"].jobs = <<>> /\ lib["master"].image = OwnBank
      BY <1>1, SidesAre DEF TypeOK, MasterJobs, OwnBank
    <2>4. /\ lib'["slave"] = lib["slave"]
          /\ lib'["master"] = Given(lib["master"], Verify)
      BY <1>1, <1>2, MasterLibIs
    <2>5. OwnBankOK'
      BY <1>1, <2>2, <2>3, <2>4, OwnGoesOn
    <2>6. ~(want <= NumPackets)
      BY <1>1, StepTypes
    <2>7. Follows' => Follows /\ Passed' = Passed
      BY <1>1, <2>2, <2>6 DEF Follows, Passed
    <2> QED
      BY <1>1, <2>1, <2>4, <2>5, <2>7, NothingNew, SlaveKept DEF SInv
  <1>3. CASE TimedOut /\ UNCHANGED <<sem, lib, phone>>
    BY <1>1, <1>3, StepGivesUp
  <1> QED
    BY <1>2, <1>3 DEF VerifyWaits

LEMMA StepInfoWaits ==
  ASSUME Prompt, IInv, PInv, SInv, InfoWaits
  PROVE  SInv'
  <1>1. /\ TypeOK /\ pc = "info" /\ pc' = "none" /\ MasterJobs = <<>> /\ ~first /\ api
        /\ net' = net /\ last' = last /\ api' = api /\ first' = first /\ want' = want
        /\ want = NumPackets + 1
        /\ OwnBankOK /\ BankOK /\ StartOK /\ StepOK
    BY DEF InfoWaits, IInv, JobsOK, PInv, WaitsOK, netVars, SInv, OwnBankOK
  <1>2. CASE /\ Answered /\ sem' = sem - 1
             /\ MasterLib(Given(lib["master"], Burn)) /\ UNCHANGED phone
    <2>1. sem' = 0
      BY <1>2, TokenIsAll DEF Answered
    <2>3. lib["master"] \in Lib /\ lib["master"].jobs = <<>> /\ lib["master"].image = OwnBank
      BY <1>1, SidesAre DEF TypeOK, MasterJobs, OwnBank
    <2>4. /\ lib'["slave"] = lib["slave"]
          /\ lib'["master"] = Given(lib["master"], Burn)
      BY <1>1, <1>2, MasterLibIs
    <2>5. OwnBankOK'
      BY <1>1, <1>2, <2>3, <2>4, OwnGoesOn
    <2>7. Follows' => Follows /\ Passed' = Passed
      BY <1>1, <1>2 DEF Follows, Passed
    <2> QED
      BY <1>1, <2>1, <2>4, <2>5, <2>7, NothingNew, SlaveKept DEF SInv
  <1>3. CASE TimedOut /\ AsksPhone /\ UNCHANGED <<sem, lib>>
    <2>1. phone' = "out" <=> phone = "out"
      BY <1>3 DEF AsksPhone
    <2> QED
      BY <1>1, <1>3, <2>1, StepGivesUp
  <1> QED
    BY <1>2, <1>3 DEF InfoWaits

LEMMA StepPhoneLeaves ==
  ASSUME IInv, PInv, SInv, PhoneLeaves
  PROVE  SInv'
  <1>1. /\ MasterLib(Closed) /\ phone # "out" /\ phone' = "out" /\ net' = net
        /\ last' = last /\ sem' = sem /\ pc' = pc /\ api' = api /\ first' = first
        /\ want' = want /\ TypeOK /\ OwnBankOK /\ BankOK /\ StartOK /\ StepOK
    BY DEF PhoneLeaves, PhoneIs, netVars, waitVars, IInv, SInv
  <1>2. lib'["master"] = Closed /\ lib'["slave"] = lib["slave"]
    BY <1>1, MasterLibIs
  <1>3. OwnBankOK'
    <2>1. pc # "start"
      BY <1>1 DEF OwnBankOK
    <2> QED
      BY <1>1, <1>2, <2>1, OwnClosed
  <1>4. Follows' => Follows /\ Passed' = Passed
    <2>1. pc = "data" => phone # "waits"
      BY <1>1 DEF OwnBankOK
    <2> QED
      BY <1>1, <2>1 DEF Follows, Passed
  <1> QED
    BY <1>1, <1>2, <1>3, <1>4, NothingNew, SlaveKept DEF SInv

LEMMA StepMasterWrote ==
  ASSUME IInv, PInv, SInv, MasterWrote
  PROVE  SInv'
  <1>0. PICK p \in 1..NumPackets :
          /\ Job("master", Write(p)) /\ want' = p + 1
          /\ \E stored \in {p, SPOILT} : MasterLib(Stored(lib["master"], stored))
    BY DEF MasterWrote
  <1>1. PICK stored \in {p, SPOILT} :
          /\ Job("master", Write(p)) /\ MasterLib(Stored(lib["master"], stored))
          /\ want' = p + 1
    BY <1>0
  <1>2. /\ net' = net /\ last' = last /\ sem' = sem /\ pc' = pc /\ api' = api
        /\ first' = first /\ TypeOK /\ OwnBankOK /\ BankOK /\ StartOK /\ StepOK
        /\ phone' = IF phone = "out" THEN "out" ELSE "sends"
    BY DEF MasterWrote, netVars, waitVars, IInv, SInv, AsksPhone
  <1>3. /\ MasterJobs # <<>> /\ MasterJobs[1] = Write(p) /\ pc = "none" /\ phone = "waits"
        /\ Done(lib["master"]).jobs = <<>> /\ Done(lib["master"]).open
        /\ Done(lib["master"]).image = OwnBank /\ Done(lib["master"]) \in Lib
    BY <1>1, MasterJobEnds DEF OwnBank
  <1>4. p = want
    BY <1>2, <1>3, OpOfJob DEF OwnBankOK, Writes
  <1>5. /\ lib'["slave"] = lib["slave"] /\ MasterJobs' = <<>>
        /\ OwnBank' = Append(OwnBank, stored) /\ lib'["master"].open
    <2>1. /\ lib'["master"] = Stored(lib["master"], stored)
          /\ lib'["slave"] = lib["slave"]
      BY <1>1, <1>2, MasterLibIs
    <2>2. /\ Stored(lib["master"], stored).jobs = <<>>
          /\ Stored(lib["master"], stored).image = Append(OwnBank, stored)
          /\ Stored(lib["master"], stored).open
      BY <1>3 DEF Stored, Lib
    <2> QED
      BY <2>1, <2>2 DEF MasterJobs, OwnBank
  <1>6. Len(OwnBank') + 1 <= want'
    <2>1. Len(OwnBank) + 1 <= want
      BY <1>2, <1>3 DEF OwnBankOK
    <2>2. Len(Append(OwnBank, stored)) = Len(OwnBank) + 1
      BY StepTypes
    <2> QED
      BY <1>1, <1>4, <1>5, <2>1, <2>2, StepTypes
  <1>7. OwnBankOK'
    BY <1>2, <1>3, <1>5, <1>6 DEF OwnBankOK, Writes
  <1>8. Passed' = Passed
    <2>1. want <= NumPackets
      BY <1>1, <1>4
    <2>2. Passed = want
      BY <1>3, <2>1 DEF Passed
    <2>3. Passed' = want + 1 - 1
      BY <1>1, <1>2, <1>3, <1>4 DEF Passed
    <2> QED
      BY <2>2, <2>3, StepTypes
  <1>9. ~first
    BY <1>3 DEF PInv, WaitsOK
  <1>10. Follows' => Follows
    BY <1>2, <1>3 DEF Follows
  <1> QED
    BY <1>2, <1>3, <1>5, <1>7, <1>8, <1>9, <1>10, NothingNew, SlaveKept DEF SInv

LEMMA StepMasterBurnt ==
  ASSUME IInv, PInv, SInv, MasterBurnt
  PROVE  SInv'
  <1>1. /\ Job("master", Burn) /\ net' = net /\ last' = last /\ sem' = sem
        /\ pc' = pc /\ api' = api /\ first' = first /\ want' = want /\ phone' = phone
        /\ TypeOK /\ OwnBankOK /\ BankOK /\ StartOK /\ StepOK
    BY DEF MasterBurnt, netVars, waitVars, phoneVars, IInv, SInv
  <1>2. /\ MasterJobs # <<>> /\ MasterJobs[1] = Burn /\ pc = "none" /\ phone = "waits"
        /\ Done(lib["master"]).jobs = <<>> /\ Done(lib["master"]).open = lib["master"].open
        /\ Done(lib["master"]).image = OwnBank /\ Done(lib["master"]) \in Lib
    <2>1. Done(lib["master"]).open = lib["master"].open
      BY <1>1, SidesAre DEF Done, TypeOK, Lib
    <2> QED
      BY <1>1, <2>1, MasterJobEnds DEF OwnBank
  <1>3. want = NumPackets + 1
    BY <1>1, <1>2, OpOfJob DEF OwnBankOK, Writes
  <1>4. lib'["slave"] = lib["slave"] /\ OwnBankOK'
    <2>1. CASE MasterLib(Done(lib["master"]))
      <3>1. lib'["master"] = Done(lib["master"]) /\ lib'["slave"] = lib["slave"]
        BY <1>1, <2>1, MasterLibIs
      <3> QED
        BY <1>1, <1>2, <1>3, <3>1, OwnGoesOn
    <2>2. CASE MasterLib(Closed)
      <3>1. lib'["master"] = Closed /\ lib'["slave"] = lib["slave"]
        BY <1>1, <2>2, MasterLibIs
      <3> QED
        BY <1>1, <1>2, <3>1, OwnClosed
    <2> QED
      BY <2>1, <2>2 DEF MasterBurnt
  <1>5. /\ api' /\ first' /\ phone' # "out" => Bank = <<>>
        /\ Follows' => Follows /\ Passed' = Passed
    BY <1>1 DEF StartOK, Follows, Passed
  <1> QED
    BY <1>1, <1>4, <1>5, NothingNew, SlaveKept DEF SInv

\* The bank of a slave that holds the whole image has all that was passed on.
LEMMA WholeIsPassed ==
  ASSUME IInv, Whole("slave"), lib["slave"].open, want = NumPackets + 1
  PROVE  Len(Bank) = Passed
  <1>1. Bank = Image
    BY DEF Whole, Bank
  <1>2. Len(Image) = NumPackets
    BY StepTypes DEF Image
  <1>3. Passed = NumPackets + 1 - 1
    BY StepTypes DEF Passed
  <1> QED
    BY <1>1, <1>2, <1>3, StepTypes

LEMMA StepMasterVerified ==
  ASSUME IInv, PInv, SInv, MasterVerified
  PROVE  SInv'
  <1>1. /\ Job("master", Verify) /\ last' = last /\ sem' = sem
        /\ api' = api /\ first' = first /\ want' = want /\ TypeOK
        /\ OwnBankOK /\ BankOK /\ StartOK /\ StepOK
    BY DEF MasterVerified, IInv, SInv
  <1>2. /\ MasterJobs # <<>> /\ pc = "none" /\ phone = "waits" /\ ~first
        /\ MasterJobs[1] = Verify
        /\ Done(lib["master"]).jobs = <<>> /\ Done(lib["master"]).open = lib["master"].open
        /\ Done(lib["master"]).image = OwnBank /\ Done(lib["master"]) \in Lib
    <2>1. Done(lib["master"]).open = lib["master"].open
      BY <1>1, SidesAre DEF Done, TypeOK, Lib
    <2>2. MasterJobs # <<>>
      BY <1>1, MasterJobEnds
    <2>3. ~first
      BY <2>2 DEF PInv, WaitsOK
    <2> QED
      BY <1>1, <2>1, <2>3, MasterJobEnds DEF OwnBank
  <1>3. want = NumPackets + 1 /\ ~(want <= NumPackets)
    BY <1>1, <1>2, OpOfJob, StepTypes DEF OwnBankOK, Writes
  <1>4. phone' # "out"
    <2>1. phone' = phone \/ AsksPhone
      BY DEF MasterVerified
    <2> QED
      BY <1>2, <2>1 DEF AsksPhone
  <1>5. Follows' /\ pc' # "data" => Follows /\ Passed' = Passed
    BY <1>1, <1>2, <1>3, <1>4 DEF Follows, Passed
  <1>6. CASE lib["master"].image # Image
    <2>1. MasterLib(Closed) /\ net' = net /\ pc' = pc
      BY <1>6 DEF MasterVerified, netVars
    <2>2. lib'["master"] = Closed /\ lib'["slave"] = lib["slave"]
      BY <1>1, <2>1, MasterLibIs
    <2>3. OwnBankOK'
      BY <1>1, <1>2, <2>1, <2>2, OwnClosed
    <2> QED
      BY <1>1, <1>2, <1>5, <2>1, <2>2, <2>3, NothingNew, SlaveKept DEF SInv
  <1>7. CASE lib["master"].image = Image /\ api
    <2>0. PICK ok \in BOOLEAN :
            /\ Send("master", "INFO", 0, ok)
            /\ pc' = IF ok THEN "info" ELSE pc
      BY <1>7 DEF MasterVerified
    <2>1. MasterLib(Done(lib["master"]))
      BY <1>7 DEF MasterVerified
    <2>2. lib'["master"] = Done(lib["master"]) /\ lib'["slave"] = lib["slave"]
      BY <1>1, <2>1, MasterLibIs
    <2>3. OwnBankOK'
      BY <1>1, <1>2, <1>3, <1>4, <2>0, <2>2, OwnGoesOn
    <2>4. /\ ~Busy(net["slave"]) /\ ~Busy(net["master"]) /\ SlaveJobs = <<>>
          /\ sem = 0 /\ Whole("slave")
      BY <1>2, <1>7 DEF PInv, VerifiedOK, Still
    <2>5. Follows' /\ lib["slave"].open => Len(Bank) = Passed'
      BY <1>2, <1>3, <1>5, <2>0, <2>4, WholeIsPassed
    <2>6. Fits("INFO", 0) /\ "INFO" \in Command \ {"START"} /\ "INFO" # "DATA"
      BY DEF Fits, Command
    <2>7. BankOK' /\ StartOK' /\ StepOK'
      BY <1>1, <1>2, <2>0, <2>2, <2>4, <2>5, <2>6, MasterSends
    <2> QED
      BY <2>3, <2>7 DEF SInv
  <1>8. CASE lib["master"].image = Image /\ ~api
    <2>1. /\ MasterLib(Given(Done(lib["master"]), Burn)) /\ net' = net /\ pc' = pc
      BY <1>8 DEF MasterVerified, netVars
    <2>2. /\ lib'["master"] = Given(Done(lib["master"]), Burn)
          /\ lib'["slave"] = lib["slave"]
      BY <1>1, <2>1, MasterLibIs
    <2>3. OwnBankOK'
      BY <1>1, <1>2, <1>3, <1>4, <2>1, <2>2, OwnGoesOn
    <2> QED
      BY <1>1, <1>2, <1>5, <2>1, <2>2, <2>3, NothingNew, SlaveKept DEF SInv
  <1> QED
    BY <1>6, <1>7, <1>8

LEMMA StepMasterReceives ==
  ASSUME IInv, PInv, SInv, MasterReceives
  PROVE  SInv'
  <1>1. /\ TypeOK /\ net["master"] # <<>> /\ pc' = pc /\ api' = api /\ first' = first
        /\ want' = want /\ phone' = phone /\ lib' = lib
        /\ OwnBankOK /\ BankOK /\ StartOK /\ StepOK /\ QueuesOK
    BY DEF MasterReceives, IInv, phoneVars, SInv, PInv
  <1>2. PICK r \in Taken(net["master"]) : net' = [net EXCEPT !["master"] = r]
    BY DEF MasterReceives
  <1>3. sem' = IF /\ ~Repeats("master") /\ Head(net["master"]).cmd \in Answer
                  /\ Head(net["master"]).arg = SUCC
                 THEN sem + 1 ELSE sem
    BY DEF MasterReceives
  <1>4. /\ net'["master"] = r /\ net'["slave"] = net["slave"]
        /\ Busy(r) => Busy(net["master"])
        /\ Repeats("master") \/ Busy(net["master"])
    <2>1. PICK numbers : numbers = [last EXCEPT !["master"] = Head(net["master"]).sn]
      OBVIOUS
    <2>2. PICK n : n = net'
      OBVIOUS
    <2>3. Receives("master", r, n, numbers)
      BY <1>1, <1>2, <2>1, <2>2, SidesAre DEF Receives, TypeOK
    <2>4. Received("master", r, n, numbers)
      BY <1>1, <2>3, SidesAre, Receipt
    <2> QED
      BY <2>2, <2>4, SidesAre DEF Received
  <1>5. /\ (Busy(net["slave"]))' => /\ Busy(net["slave"])
                                    /\ (Newest(net["slave"]))' = Newest(net["slave"])
        /\ AnswerComes' => AnswerComes
    <2>1. (Busy(net["master"]))' => Busy(net["master"])
      BY <1>4 DEF Busy
    <2>2. sem' > 0 => sem > 0 \/ Busy(net["master"])
      BY <1>3, <1>4
    <2> QED
      BY <1>4, <2>1, <2>2 DEF AnswerComes, Busy, Newest
  <1>6. OwnBankOK'
    BY <1>1, OwnKept
  <1>7. /\ api' /\ first' /\ phone' # "out" => Bank = <<>>
        /\ Follows' => Follows /\ Passed' = Passed
    BY <1>1 DEF StartOK, Follows, Passed
  <1> QED
    BY <1>1, <1>5, <1>6, <1>7, SlaveKept DEF SInv

\* The slave takes a command, or ends a job: what is under way goes on.
LEMMA SlaveTurns ==
  ASSUME IInv, SInv, pc' = pc, api' = api, first' = first, want' = want, phone' = phone,
         lib'["master"] = lib["master"], ~(Busy(net["slave"]))',
         ~lib'["slave"].open => Bank' = <<>>,
         \A i \in DOMAIN Bank' : Bank'[i] \in {i, SPOILT},
         Writes(SlaveJobs)' => SlaveJobs'[1].pkt = Len(Bank') + 1,
         pc = "start" => SlaveJobs' = <<>> /\ (AnswerComes' => Bank' = <<>>),
         api /\ first /\ phone # "out" => Bank' = <<>>,
         Follows /\ lib'["slave"].open =>
           /\ Len(Bank') \in {Passed - 1, Passed}
           /\ AnswerComes' \/ SlaveJobs' # <<>>
                => Len(Bank') = IF Writes(SlaveJobs)' THEN Passed - 1 ELSE Passed
  PROVE  SInv'
  <1>1. OwnBankOK'
    BY OwnKept DEF SInv
  <1>2. \A cmd : ~(SlaveBusy(cmd))'
    BY DEF SlaveBusy
  <1>3. BankOK'
    BY <1>2 DEF BankOK
  <1>4. StartOK'
    BY <1>2 DEF StartOK
  <1>5. Passed' = Passed /\ (Follows' <=> Follows)
    BY DEF Passed, Follows
  <1>6. StepOK'
    <2>1. /\ Underway' <=> AnswerComes' \/ SlaveJobs' # <<>>
          /\ Brings' <=> Writes(SlaveJobs)'
      BY <1>2 DEF Underway, Brings
    <2> QED
      BY <1>5, <2>1 DEF StepOK
  <1> QED
    BY <1>1, <1>3, <1>4, <1>6 DEF SInv

\* The same, when the bank stays: an answer goes out, or a job begins.
LEMMA SlaveTurnsSame ==
  ASSUME IInv, SInv, pc' = pc, api' = api, first' = first, want' = want, phone' = phone,
         lib'["master"] = lib["master"], ~(Busy(net["slave"]))',
         Bank' = Bank, lib'["slave"].open = lib["slave"].open, pc # "start",
         Underway, SlaveJobs' # <<>> => (Writes(SlaveJobs)' <=> Brings),
         Writes(SlaveJobs)' => SlaveJobs'[1].pkt = Len(Bank) + 1,
         AnswerComes' => SlaveJobs' = <<>> /\ (~Brings \/ ~lib["slave"].open)
  PROVE  SInv'
  <1>1. ~lib'["slave"].open => Bank' = <<>>
    BY DEF SInv, BankOK
  <1>2. \A i \in DOMAIN Bank' : Bank'[i] \in {i, SPOILT}
    BY DEF SInv, BankOK
  <1>3. api /\ first /\ phone # "out" => Bank' = <<>>
    BY DEF SInv, StartOK
  <1>4. SlaveJobs' = <<>> => ~Writes(SlaveJobs)'
    BY DEF Writes
  <1>5. Follows /\ lib'["slave"].open =>
           /\ Len(Bank') \in {Passed - 1, Passed}
           /\ AnswerComes' \/ SlaveJobs' # <<>>
                => Len(Bank') = IF Writes(SlaveJobs)' THEN Passed - 1 ELSE Passed
    BY <1>4 DEF SInv, StepOK
  <1> QED
    BY <1>1, <1>2, <1>3, <1>5, SlaveTurns

LEMMA StepSlaveTakes ==
  ASSUME IInv, PInv, SInv, net["slave"] # <<>>, NEW r \in Taken(net["slave"]),
         ~Repeats("slave"), Handles(Head(net["slave"]), r),
         last' = [last EXCEPT !["slave"] = Head(net["slave"]).sn],
         sem' = sem, pc' = pc, api' = api, first' = first, want' = want,
         phone' = phone
  PROVE  SInv'
  <1> DEFINE h == Head(net["slave"])
  <1>1. TypeOK /\ JobsOK /\ QueuesOK /\ OwnBankOK /\ BankOK /\ StartOK /\ StepOK
    BY DEF IInv, PInv, SInv
  <1>2. Busy(net["slave"]) /\ Newest(net["slave"]) = h /\ h \in Packet
    <2>1. PICK n : n = [last EXCEPT !["slave"] = h.sn]
      OBVIOUS
    <2>2. PICK q : q = [net EXCEPT !["slave"] = r]
      OBVIOUS
    <2>3. Receives("slave", r, q, n)
      BY <1>1, <2>1, <2>2, SidesAre DEF Receives, TypeOK
    <2>4. Received("slave", r, q, n)
      BY <1>1, <2>3, SidesAre, Receipt
    <2>5. h \in Packet
      BY <1>1, SidesAre DEF TypeOK
    <2> QED
      BY <2>4, <2>5 DEF Received
  <1> HIDE DEF h
  <1>3. /\ sem = 0 /\ SlaveJobs = <<>> /\ ~Busy(net["master"]) /\ ~AnswerComes
        /\ Underway /\ ~Writes(SlaveJobs)
    BY <1>2, StepTypes DEF PInv, OneAtATime, AnswerComes, Underway, Writes
  <1>4. /\ \A cmd : SlaveBusy(cmd) <=> h.cmd = cmd
        /\ Brings <=> h.cmd = "DATA"
    BY <1>2, <1>3 DEF SlaveBusy, Brings
  <1>5. pc = "start" <=> h.cmd = "START"
    BY <1>1, <1>2, <1>4 DEF StartOK
  <1>6. CASE h.cmd = "START" /\ Starts(r)
    <2>1. PICK arg \in {SUCC, ERR}, ok \in BOOLEAN :
            SlaveLib(Opened) /\ Replies(r, "START_RSP", arg, ok)
      BY <1>6 DEF Starts
    <2>2. Fits("START_RSP", arg)
      BY <2>1 DEF Fits, Answer, Command
    <2>3. ~(Busy(net["slave"]))'
      BY <2>1, <2>2, Replied
    <2>4. /\ SlaveJobs' = <<>> /\ lib'["master"] = lib["master"] /\ Bank' = <<>>
          /\ ~Writes(SlaveJobs)'
      <3>1. lib'["slave"] = Opened /\ lib'["master"] = lib["master"]
        BY <1>1, <2>1, SlaveLibIs
      <3> QED
        BY <3>1, NoJobs DEF SlaveJobs, Bank, Opened, Writes
    <2>5. ~Follows
      BY <1>1, <1>5, <1>6 DEF Follows, OwnBankOK
    <2> QED
      BY <2>3, <2>4, <2>5, SlaveTurns
  <1>7. ASSUME NEW op \in Jobs, SlaveLib(Given(lib["slave"], op)), Silent(r),
               h.cmd # "START", op.op = "write" <=> h.cmd = "DATA",
               op.op = "write" /\ lib["slave"].open => op.pkt = Len(Bank) + 1
        PROVE  SInv'
    <2>1. ~(Busy(net["slave"]))' /\ ~AnswerComes'
      BY <1>3, <1>7, NotReplied DEF AnswerComes
    <2>2. /\ lib'["master"] = lib["master"] /\ Bank' = Bank
          /\ lib'["slave"].open = lib["slave"].open
          /\ SlaveJobs' # <<>> => SlaveJobs'[1] = op /\ lib["slave"].open
      BY <1>1, <1>3, <1>7, SlaveGets DEF Bank
    <2>3. /\ SlaveJobs' # <<>> => (Writes(SlaveJobs)' <=> op.op = "write")
          /\ Writes(SlaveJobs)' => SlaveJobs'[1].pkt = Len(Bank) + 1
      BY <1>7, <2>2 DEF Writes
    <2> QED
      BY <1>3, <1>4, <1>5, <1>7, <2>1, <2>2, <2>3, SlaveTurnsSame
  <1>8. CASE h.cmd = "DATA" /\ SlaveLib(Given(lib["slave"], Write(h.arg))) /\ Silent(r)
    <2>1. Write(h.arg) \in Jobs
      <3>1. h.arg \in 1..NumPackets
        BY <1>2, <1>8 DEF Packet, Command, Answer
      <3> QED
        BY <3>1, JobTypes
    <2>2. lib["slave"].open => h.arg = Len(Bank) + 1
      BY <1>1, <1>2, <1>4, <1>8 DEF BankOK
    <2>3. Write(h.arg).op = "write" /\ Write(h.arg).pkt = h.arg
      BY OpOfJob
    <2> QED
      BY <1>7, <1>8, <2>1, <2>2, <2>3
  <1>9. CASE h.cmd = "VERIFY" /\ Verifies(r)
    <2>1. CASE lib["slave"].open
      BY <1>7, <1>9, <2>1, JobTypes, OpOfJob DEF Verifies
    <2>2. CASE ~lib["slave"].open
      <3>1. PICK arg \in {SUCC, ERR}, ok \in BOOLEAN : Replies(r, "VERIFY_RSP", arg, ok)
        BY <1>9, <2>2 DEF Verifies
      <3>2. lib' = lib
        BY <1>9, <2>2 DEF Verifies
      <3>3. Fits("VERIFY_RSP", arg)
        BY <3>1 DEF Fits, Answer, Command
      <3>4. ~(Busy(net["slave"]))'
        BY <3>1, <3>3, Replied
      <3>5. SlaveJobs' = <<>> /\ Bank' = Bank /\ ~Writes(SlaveJobs)'
        BY <1>3, <3>2 DEF SlaveJobs, Bank, Writes
      <3> QED
        BY <1>3, <1>5, <1>9, <2>2, <3>2, <3>4, <3>5, SlaveTurnsSame
    <2> QED
      BY <2>1, <2>2
  <1>10. CASE h.cmd = "INFO" /\ SlaveLib(Given(lib["slave"], Burn)) /\ Silent(r)
    BY <1>7, <1>10, JobTypes, OpOfJob
  <1> QED
    BY <1>6, <1>8, <1>9, <1>10 DEF Handles, h

LEMMA StepSlaveReceives ==
  ASSUME IInv, PInv, SInv, SlaveReceives
  PROVE  SInv'
  <1>1. /\ net["slave"] # <<>> /\ sem' = sem /\ pc' = pc /\ api' = api
        /\ first' = first /\ want' = want /\ phone' = phone /\ boot' = boot
        /\ OwnBankOK /\ BankOK /\ StartOK /\ StepOK
    BY DEF SlaveReceives, waitVars, phoneVars, SInv
  <1>2. PICK r \in Taken(net["slave"]) :
          IF Repeats("slave")
            THEN Silent(r) /\ UNCHANGED <<lib, last, timer>>
            ELSE /\ Handles(Head(net["slave"]), r)
                 /\ last' = [last EXCEPT !["slave"] = Head(net["slave"]).sn]
                 /\ timer' = TRUE
    BY DEF SlaveReceives
  <1>3. CASE Repeats("slave")
    <2>1. Silent(r) /\ lib' = lib /\ last' = last
      BY <1>2, <1>3
    <2>2. last' = [last EXCEPT !["slave"] = Head(net["slave"]).sn]
      BY <1>3, <2>1, SidesAre DEF Repeats, IInv, TypeOK
    <2>3. /\ (Busy(net["master"]))' <=> Busy(net["master"])
          /\ (Busy(net["slave"]))' => /\ Busy(net["slave"])
                                      /\ (Newest(net["slave"]))' = Newest(net["slave"])
      BY <1>1, <2>1, <2>2, NotReplied
    <2>4. AnswerComes' => AnswerComes
      BY <1>1, <2>3 DEF AnswerComes
    <2>5. /\ api' /\ first' /\ phone' # "out" => Bank = <<>>
          /\ Follows' => Follows /\ Passed' = Passed
      BY <1>1 DEF StartOK, Follows, Passed
    <2>6. OwnBankOK'
      BY <1>1, <2>1, OwnKept
    <2> QED
      BY <1>1, <2>1, <2>3, <2>4, <2>5, <2>6, SlaveKept DEF SInv
  <1>4. CASE ~Repeats("slave")
    BY <1>1, <1>2, <1>4, StepSlaveTakes
  <1> QED
    BY <1>3, <1>4

\* While the slave has a job, the master does not wait for the start.
LEMMA SlaveWorks ==
  ASSUME IInv, PInv, SInv, NEW op, Job("slave", op)
  PROVE  /\ ~Busy(net["slave"]) /\ ~Busy(net["master"]) /\ SlaveJobs # <<>>
         /\ SlaveJobs[1] = op /\ Done(lib["slave"]).jobs = <<>>
         /\ Done(lib["slave"]).image = Bank /\ Done(lib["slave"]).open
         /\ lib["slave"].open /\ Done(lib["slave"]) \in Lib
         /\ pc # "start" /\ Underway
         /\ Brings <=> op.op = "write"
         /\ ~(api /\ first /\ phone # "out")
  <1>1. /\ ~Still /\ ~Busy(net["slave"]) /\ ~Busy(net["master"]) /\ SlaveJobs # <<>>
        /\ SlaveJobs[1] = op /\ Done(lib["slave"]).jobs = <<>>
        /\ Done(lib["slave"]).image = Bank /\ Done(lib["slave"]).open
        /\ lib["slave"].open /\ Done(lib["slave"]) \in Lib
    BY SlaveEnds, SlaveJobEnds DEF Bank
  <1>2. pc # "start"
    BY <1>1 DEF SInv, StartOK
  <1>3. ~(api /\ first /\ phone # "out")
    BY <1>1, <1>2 DEF PInv, WaitsOK
  <1>4. Underway /\ (Brings <=> op.op = "write")
    BY <1>1 DEF Underway, Brings, SlaveBusy, Writes
  <1> QED
    BY <1>1, <1>2, <1>3, <1>4

LEMMA StepSlaveWrote ==
  ASSUME IInv, PInv, SInv, SlaveWrote
  PROVE  SInv'
  <1>1. PICK p \in 1..NumPackets, ok \in BOOLEAN :
          /\ Job("slave", Write(p))
          /\ \E stored \in {p, SPOILT} : SlaveLib(Stored(lib["slave"], stored))
          /\ Send("slave", "DATA_RSP", SUCC, ok)
    BY DEF SlaveWrote
  <1>2. PICK stored \in {p, SPOILT} : SlaveLib(Stored(lib["slave"], stored))
    BY <1>1
  <1>3. /\ last' = last /\ pc' = pc /\ api' = api /\ first' = first
        /\ want' = want /\ phone' = phone /\ TypeOK /\ BankOK /\ StepOK
    BY DEF SlaveWrote, waitVars, phoneVars, IInv, SInv
  <1>4. /\ ~Busy(net["slave"]) /\ ~Busy(net["master"]) /\ SlaveJobs # <<>>
        /\ SlaveJobs[1] = Write(p) /\ Done(lib["slave"]).jobs = <<>>
        /\ Done(lib["slave"]).image = Bank /\ Done(lib["slave"]).open
        /\ lib["slave"].open /\ Done(lib["slave"]) \in Lib
        /\ pc # "start" /\ Underway /\ Brings /\ ~(api /\ first /\ phone # "out")
    BY <1>1, SlaveWorks, OpOfJob
  <1>5. p = Len(Bank) + 1
    BY <1>3, <1>4, OpOfJob DEF BankOK, Writes
  <1>6. /\ lib'["master"] = lib["master"] /\ SlaveJobs' = <<>>
        /\ Bank' = Append(Bank, stored) /\ lib'["slave"].open
    <2>1. lib'["slave"] = Stored(lib["slave"], stored) /\ lib'["master"] = lib["master"]
      BY <1>2, <1>3, SlaveLibIs
    <2>2. /\ Stored(lib["slave"], stored).jobs = <<>>
          /\ Stored(lib["slave"], stored).image = Append(Bank, stored)
          /\ Stored(lib["slave"], stored).open
      BY <1>4 DEF Stored, Lib
    <2> QED
      BY <2>1, <2>2 DEF SlaveJobs, Bank
  <1>7. ~(Busy(net["slave"]))'
    BY <1>1, <1>3, <1>4, Answers DEF Answer
  <1>8. \A i \in DOMAIN Bank' : Bank'[i] \in {i, SPOILT}
    <2>1. \A i \in DOMAIN Append(Bank, stored) :
             \/ i \in DOMAIN Bank /\ Append(Bank, stored)[i] = Bank[i]
             \/ i = Len(Bank) + 1 /\ Append(Bank, stored)[i] = stored
      BY StepTypes
    <2> QED
      BY <1>3, <1>5, <1>6, <2>1 DEF BankOK
  <1>9. Len(Bank') = Len(Bank) + 1
    BY <1>6, StepTypes
  <1>10. Follows => Len(Bank') = Passed
    <2>1. Follows => Len(Bank) = Passed - 1
      BY <1>3, <1>4 DEF StepOK
    <2>2. Passed \in Int
      BY StepTypes DEF Passed
    <2> QED
      BY <1>9, <2>1, <2>2, StepTypes
  <1>11. ~Writes(SlaveJobs)'
    BY <1>6 DEF Writes
  <1> QED
    BY <1>3, <1>4, <1>6, <1>7, <1>8, <1>10, <1>11, SlaveTurns

LEMMA StepSlaveVerified ==
  ASSUME IInv, PInv, SInv, SlaveVerified
  PROVE  SInv'
  <1>1. /\ Job("slave", Verify) /\ SlaveLib(Done(lib["slave"]))
        /\ last' = last /\ pc' = pc /\ api' = api /\ first' = first
        /\ want' = want /\ phone' = phone /\ TypeOK
    BY DEF SlaveVerified, waitVars, phoneVars, IInv
  <1>2. /\ ~Busy(net["slave"]) /\ ~Busy(net["master"])
        /\ Done(lib["slave"]).jobs = <<>> /\ Done(lib["slave"]).image = Bank
        /\ Done(lib["slave"]).open /\ lib["slave"].open
        /\ pc # "start" /\ Underway /\ ~Brings
    BY <1>1, SlaveWorks, OpOfJob
  <1>3. /\ SlaveJobs' = <<>> /\ lib'["master"] = lib["master"] /\ Bank' = Bank
        /\ lib'["slave"].open /\ ~Writes(SlaveJobs)'
    <2>1. lib'["slave"] = Done(lib["slave"]) /\ lib'["master"] = lib["master"]
      BY <1>1, SlaveLibIs
    <2> QED
      BY <1>2, <2>1 DEF SlaveJobs, Bank, Writes
  <1>4. ~(Busy(net["slave"]))'
    <2>1. PICK arg \in {SUCC, ERR}, ok \in BOOLEAN : Send("slave", "VERIFY_RSP", arg, ok)
      BY DEF SlaveVerified
    <2> QED
      BY <1>1, <1>2, <2>1, Answers DEF Answer
  <1> QED
    BY <1>1, <1>2, <1>3, <1>4, SlaveTurnsSame

LEMMA StepSlaveBurnt ==
  ASSUME IInv, PInv, SInv, SlaveBurnt
  PROVE  SInv'
  <1>1. /\ Job("slave", Burn) /\ SlaveLib(Done(lib["slave"]))
        /\ last' = last /\ pc' = pc /\ api' = api /\ first' = first
        /\ want' = want /\ phone' = phone /\ TypeOK
    BY DEF SlaveBurnt, waitVars, phoneVars, IInv
  <1>2. /\ ~Busy(net["slave"]) /\ ~Busy(net["master"])
        /\ Done(lib["slave"]).jobs = <<>> /\ Done(lib["slave"]).image = Bank
        /\ Done(lib["slave"]).open /\ lib["slave"].open
        /\ pc # "start" /\ Underway /\ ~Brings
    BY <1>1, SlaveWorks, OpOfJob
  <1>3. /\ SlaveJobs' = <<>> /\ lib'["master"] = lib["master"] /\ Bank' = Bank
        /\ lib'["slave"].open /\ ~Writes(SlaveJobs)'
    <2>1. lib'["slave"] = Done(lib["slave"]) /\ lib'["master"] = lib["master"]
      BY <1>1, SlaveLibIs
    <2> QED
      BY <1>2, <2>1 DEF SlaveJobs, Bank, Writes
  <1>4. ~(Busy(net["slave"]))'
    <2>1. CASE \E ok \in BOOLEAN : Send("slave", "INFO_RSP", SUCC, ok)
      BY <1>1, <1>2, <2>1, Answers DEF Answer
    <2>2. CASE net' = net
      BY <1>2, <2>2 DEF Busy
    <2> QED
      BY <2>1, <2>2 DEF SlaveBurnt
  <1> QED
    BY <1>1, <1>2, <1>3, <1>4, SlaveTurnsSame

\* A side ends its update task; packets on their way stay, or are lost.
LEMMA StepStops ==
  ASSUME IInv, PInv, SInv, NEW d \in Side, lib' = [lib EXCEPT ![d] = Closed],
         (Busy(net["slave"]))' => /\ Busy(net["slave"])
                                  /\ (Newest(net["slave"]))' = Newest(net["slave"]),
         AnswerComes' => AnswerComes,
         pc' = pc, api' = api, first' = first, want' = want, phone' = phone
  PROVE  SInv'
  <1>1. /\ lib'[d] = Closed /\ lib'[Other(d)] = lib[Other(d)]
        /\ OwnBankOK /\ BankOK /\ StartOK /\ StepOK
    BY SidesAre DEF IInv, TypeOK, SInv
  <1>2. /\ api' /\ first' /\ phone' # "out" => Bank = <<>>
        /\ Follows' => Follows /\ Passed' = Passed
        /\ pc' = "start" => first' /\ phone' = "out"
        /\ pc' = "data" => phone' # "waits"
    BY <1>1 DEF StartOK, Follows, Passed, OwnBankOK
  <1>3. CASE d = "master"
    <2>1. lib'["master"] = Closed /\ lib'["slave"] = lib["slave"]
      BY <1>1, <1>3, SidesAre
    <2>2. OwnBankOK'
      BY <1>1, <1>2, <2>1, OwnClosed
    <2> QED
      BY <1>1, <1>2, <2>1, <2>2, SlaveKept DEF SInv
  <1>4. CASE d = "slave"
    <2>1. lib'["slave"] = Closed /\ lib'["master"] = lib["master"]
      BY <1>1, <1>4, SidesAre
    <2> QED
      BY <1>1, <2>1, OwnKept, SlaveClosed DEF SInv
  <1> QED
    BY <1>3, <1>4 DEF Side

LEMMA StepLost ==
  ASSUME IInv, PInv, SInv, net' = [e \in Side |-> <<>>], lib' = lib,
         sem' = sem, pc' = pc, api' = api, first' = first, want' = want,
         phone' = phone
  PROVE  SInv'
  <1>1. OwnBankOK /\ BankOK /\ StartOK /\ StepOK
    BY DEF SInv
  <1>2. ~(Busy(net["slave"]))' /\ ~(Busy(net["master"]))'
    BY SidesAre, EmptyIsFine DEF Busy
  <1>3. /\ AnswerComes' => AnswerComes
        /\ api' /\ first' /\ phone' # "out" => Bank = <<>>
        /\ Follows' => Follows /\ Passed' = Passed
    BY <1>1, <1>2 DEF AnswerComes, StartOK, Follows, Passed
  <1>4. OwnBankOK'
    BY <1>1, OwnKept
  <1> QED
    BY <1>1, <1>2, <1>3, <1>4, SlaveKept DEF SInv

LEMMA StepRestart ==
  ASSUME IInv, PInv, SInv, NEW d \in Side, Restart(d)
  PROVE  SInv'
  <1>1. /\ lib' = [lib EXCEPT ![d] = Closed] /\ net' = [e \in Side |-> <<>>]
        /\ TypeOK /\ OwnBankOK /\ BankOK /\ StartOK /\ StepOK
    BY DEF Restart, IInv, SInv
  <1>2. ~(Busy(net["slave"]))' /\ ~(Busy(net["master"]))'
    BY <1>1, SidesAre, EmptyIsFine DEF Busy
  <1>3. CASE d = "master"
    <2>1. pc' = "none" /\ sem' = 0 /\ api' = FALSE /\ phone' = "out"
      BY <1>3 DEF Restart, PhoneIs
    <2>2. /\ MasterJobs' = <<>> /\ OwnBank' = <<>>
          /\ lib'["slave"] = lib["slave"] /\ SlaveJobs' = SlaveJobs /\ Bank' = Bank
      BY <1>1, <1>3, SidesAre, NoJobs
      DEF MasterJobs, OwnBank, SlaveJobs, Bank, TypeOK, Closed
    <2>3. OwnBankOK'
      BY <2>1, <2>2 DEF OwnBankOK, Writes
    <2>4. \A cmd : ~(SlaveBusy(cmd))'
      BY <1>2 DEF SlaveBusy
    <2>5. BankOK'
      BY <1>1, <2>2, <2>4 DEF BankOK, Writes
    <2>6. StartOK' /\ StepOK'
      BY <2>1, <2>4 DEF StartOK, StepOK, Follows
    <2> QED
      BY <2>3, <2>5, <2>6 DEF SInv
  <1>4. CASE d = "slave"
    <2>1. /\ pc' = pc /\ sem' = sem /\ api' = api /\ phone' = phone
          /\ first' = first /\ want' = want
      BY <1>4 DEF Restart, waitVars
    <2>2. AnswerComes' => AnswerComes
      BY <1>2, <2>1 DEF AnswerComes
    <2> QED
      BY <1>1, <1>2, <2>1, <2>2, StepStops
  <1> QED
    BY <1>3, <1>4 DEF Side

LEMMA StepInit == Init => SInv
  <1> SUFFICES ASSUME Init
               PROVE  SInv
    OBVIOUS
  <1>1. /\ net["slave"] = <<>> /\ MasterJobs = <<>> /\ SlaveJobs = <<>>
        /\ Bank = <<>> /\ OwnBank = <<>>
    BY SidesAre DEF Init, MasterJobs, SlaveJobs, Bank, OwnBank, Closed
  <1>2. \A cmd : ~SlaveBusy(cmd)
    BY <1>1, EmptyIsFine DEF SlaveBusy
  <1>3. OwnBankOK
    BY <1>1 DEF Init, OwnBankOK, Writes
  <1>4. BankOK
    BY <1>1, <1>2 DEF BankOK, Writes
  <1>5. StartOK /\ StepOK
    BY <1>2 DEF Init, StartOK, StepOK, Follows
  <1> QED
    BY <1>3, <1>4, <1>5 DEF SInv

LEMMA StepStep ==
  Prompt /\ IInv /\ PInv /\ SInv /\ ~overlap' /\ [Next]_vars => SInv'
  <1> SUFFICES ASSUME Prompt, IInv, PInv, SInv, ~overlap', [Next]_vars
               PROVE  SInv'
    OBVIOUS
  <1>1. CASE Master
    BY <1>1, StepStartWaits, StepDataWaits, StepLastWaits, StepVerifyWaits, StepInfoWaits,
       StepMasterWrote, StepMasterVerified, StepMasterBurnt, StepMasterReceives
    DEF Master
  <1>2. CASE Slave /\ ~SlaveTimeout
    BY <1>2, StepSlaveReceives, StepSlaveWrote, StepSlaveVerified, StepSlaveBurnt DEF Slave
  <1>3. CASE Phone
    BY <1>3, StepOtaCheck, StepTransData, StepCheckCrc, StepPhoneLeaves DEF Phone
  <1>4. CASE Detach
    <2>1. /\ net' = [e \in Side |-> <<>>] /\ lib' = lib /\ sem' = sem /\ pc' = pc
          /\ api' = api /\ first' = first /\ want' = want /\ phone' = phone
      BY <1>4 DEF Detach, waitVars, phoneVars
    <2> QED
      BY <2>1, StepLost
  <1>5. CASE UNCHANGED vars \/ Attach
    <2>1. /\ net' = net /\ last' = last /\ lib' = lib /\ sem' = sem /\ pc' = pc
          /\ api' = api /\ first' = first /\ want' = want /\ phone' = phone
      BY <1>5 DEF Attach, vars, netVars, waitVars, phoneVars
    <2>2. OwnBankOK /\ BankOK /\ StartOK /\ StepOK
      BY DEF SInv
    <2>3. /\ api' /\ first' /\ phone' # "out" => Bank = <<>>
          /\ Follows' => Follows /\ Passed' = Passed
      BY <2>1, <2>2 DEF StartOK, Follows, Passed
    <2>4. OwnBankOK'
      BY <2>1, <2>2, OwnKept
    <2> QED
      BY <2>1, <2>2, <2>3, <2>4, NothingNew, SlaveKept DEF SInv
  <1>6. ASSUME NEW d \in Side, lib' = [lib EXCEPT ![d] = Closed], net' = net,
               last' = last, sem' = sem, pc' = pc, api' = api, first' = first,
               want' = want, phone' = phone
        PROVE  SInv'
    BY <1>6, NothingNew, StepStops
  <1>7. CASE SlaveTimeout
    BY <1>6, <1>7, SidesAre DEF SlaveTimeout, SlaveLib, netVars, waitVars, phoneVars
  <1>8. ASSUME NEW d \in Side, TwsOtaStop(d)
        PROVE  SInv'
    BY <1>6, <1>8 DEF TwsOtaStop, waitVars, phoneVars
  <1>9. ASSUME NEW d \in Side, Restart(d)
        PROVE  SInv'
    BY <1>9, StepRestart
  <1> QED
    BY <1>1, <1>2, <1>3, <1>4, <1>5, <1>7, <1>8, <1>9 DEF Next, Radio

\* When answers are in time and no update begins in the middle of another,
\* the bank of the slave holds the packets in their order, none twice and none left out, and the master is never more than one
\* packet ahead of it (the wait for the answer before the next packet).
THEOREM SlaveInStep ==
  ASSUME Prompt
  PROVE  Spec => []InStep
  <1> DEFINE Inv == IInv /\ (overlap \/ (PInv /\ SInv))
  <1>1. Init => Inv
    BY TypeInit, InvInit, StepInit
  <1>2. Inv /\ [Next]_vars => Inv'
    BY TypeStep, InvStep, StepStep, OverlapStays
  <1>3. Inv => InStep
    <2> SUFFICES ASSUME IInv, PInv, SInv
                 PROVE  InStep
      BY DEF InStep
    <2>1. \A i \in DOMAIN Bank : Bank[i] \in {i, SPOILT}
      BY DEF SInv, BankOK
    <2>2. ASSUME api, lib["slave"].open
          PROVE  Len(Bank) + 1 >= Len(OwnBank)
      <3>1. CASE OwnBank = <<>>
        BY <3>1, StepTypes
      <3>2. CASE OwnBank # <<>>
        <4>1. phone # "out" /\ Len(OwnBank) + 1 <= want
          BY <3>2 DEF SInv, OwnBankOK
        <4>2. ~first
          <5>1. want # 1
            <6>1. Len(OwnBank) # 0
              BY <3>2, StepTypes
            <6> QED
              BY <4>1, <6>1, StepTypes
          <5> QED
            BY <4>1, <5>1 DEF PInv, WaitsOK
        <4>3. Len(Bank) \in {Passed - 1, Passed}
          BY <2>2, <4>1, <4>2 DEF SInv, StepOK, Follows
        <4>4. Passed \in {want - 1, want}
          BY DEF Passed
        <4> QED
          BY <4>1, <4>3, <4>4, StepTypes
      <3> QED
        BY <3>1, <3>2
    <2> QED
      BY <2>1, <2>2 DEF InStep, Bank, OwnBank
  <1> QED
    BY <1>1, <1>2, <1>3, PTL DEF Spec

----------------------------------------------------------------------------
(* Sequence numbers.  A packet is dropped when it has the number of the one *)
(* before.  How far the number of a sender is ahead of the last one that    *)
(* was taken grows by a send that fails, a link that is lost and a burn     *)
(* that fails; it must not come round to nothing before a packet is taken.  *)
Ahead(n, m) == IF n >= m THEN n - m ELSE n - m + SnMod
Gap(d) == Ahead(sn[Other(d)], last[d])

\* The numbers do not come round in a run.
Few == SnMod > 2 * MaxFaults + 2

MasterVerifies == api /\ MasterJobs # <<>> /\ MasterJobs[1] = Verify
Burns == SlaveJobs # <<>> /\ SlaveJobs[1] = Burn

\* What the sibling of d may still send to it without the link.
MaySend(d) == IF d = "master" THEN SlaveJobs # <<>>
                              ELSE sem > 0 \/ (api /\ first) \/ MasterVerifies

Numbered(d) ==
  /\ ~link => net[d] = <<>>
  /\ Busy(net[d]) => Newest(net[d]).sn = sn[Other(d)] /\ Gap(d) # 0
  /\ Gap(d) <= 2 * faults + (IF Busy(net[d]) THEN 2 ELSE 1)
  /\ ~link /\ MaySend(d) => Gap(d) <= 2 * faults

\* The master has taken the last packet of a slave that burns.
CaughtUp == sem > 0 \/ MasterVerifies \/ SlaveBusy("INFO") \/ Burns => Gap("master") = 0

GapsOK == (\A d \in Side : Numbered(d)) /\ CaughtUp
GInv == restarted \/ GapsOK

LEMMA NextIsAhead ==
  ASSUME NEW n \in 0..SnMod - 1, NEW m \in 0..SnMod - 1
  PROVE  /\ Ahead(n, m) \in Nat /\ (Ahead(n, m) = 0 <=> n = m)
         /\ Ahead(n, m) + 1 < SnMod => Ahead((n + 1) % SnMod, m) = Ahead(n, m) + 1
  <1>1. SnMod \in Nat /\ SnMod > 1
    BY Numbers
  <1>2. (n + 1) % SnMod = IF n + 1 = SnMod THEN 0 ELSE n + 1
    BY <1>1
  <1> QED
    BY <1>1, <1>2 DEF Ahead

LEMMA GapTypes ==
  ASSUME TypeOK
  PROVE  /\ \A d \in Side : /\ sn[d] \in 0..SnMod - 1 /\ last[d] \in 0..SnMod - 1
                            /\ Other(d) \in Side /\ Other(d) # d /\ Other(Other(d)) = d
                            /\ Gap(d) \in Nat /\ (Gap(d) = 0 <=> sn[Other(d)] = last[d])
         /\ faults \in Nat /\ faults <= MaxFaults /\ MaxFaults \in Nat /\ SnMod \in Nat
  <1>1. \A d \in Side : /\ sn[d] \in 0..SnMod - 1 /\ last[d] \in 0..SnMod - 1
                        /\ Other(d) \in Side /\ Other(d) # d /\ Other(Other(d)) = d
    BY DEF TypeOK, Other, Side
  <1>2. \A d \in Side : Gap(d) \in Nat /\ (Gap(d) = 0 <=> sn[Other(d)] = last[d])
    BY <1>1, NextIsAhead DEF Gap
  <1>3. faults \in Nat /\ faults <= MaxFaults /\ MaxFaults \in Nat /\ SnMod \in Nat
    BY Numbers DEF TypeOK
  <1> QED
    BY <1>1, <1>2, <1>3

\* The sender takes the next number.
LEMMA GapGrows ==
  ASSUME TypeOK, Few, NEW d \in Side, sn' = [sn EXCEPT ![d] = (@ + 1) % SnMod],
         last'[Other(d)] = last[Other(d)], Gap(Other(d)) <= 2 * faults + 1
  PROVE  /\ Gap(Other(d))' = Gap(Other(d)) + 1
         /\ sn'[Other(d)] = sn[Other(d)]
  <1>1. /\ sn[d] \in 0..SnMod - 1 /\ last[Other(d)] \in 0..SnMod - 1
        /\ Other(Other(d)) = d /\ Other(d) # d /\ Other(d) \in Side
    BY GapTypes
  <1>2. sn'[d] = (sn[d] + 1) % SnMod /\ sn'[Other(d)] = sn[Other(d)]
    BY <1>1 DEF TypeOK
  <1>3. Gap(Other(d)) + 1 < SnMod
    BY <1>1, GapTypes DEF Few
  <1>4. Gap(Other(d)) = Ahead(sn[d], last[Other(d)])
    BY <1>1 DEF Gap
  <1>5. Ahead((sn[d] + 1) % SnMod, last[Other(d)]) = Gap(Other(d)) + 1
    BY <1>1, <1>3, <1>4, NextIsAhead
  <1>6. Gap(Other(d))' = Ahead(sn'[d], last'[Other(d)])
    BY <1>1 DEF Gap, Ahead
  <1> QED
    BY <1>2, <1>5, <1>6

\* A step that numbers nothing for d, and takes nothing new.
LEMMA NumberedKept ==
  ASSUME TypeOK, NEW d \in Side, Numbered(d), sn'[Other(d)] = sn[Other(d)],
         last'[d] = last[d], faults' \in {faults, faults + 1},
         (Busy(net[d]))' => Busy(net[d]) /\ (Newest(net[d]))' = Newest(net[d]),
         Busy(net[d]) => (Busy(net[d]))' \/ faults' = faults + 1,
         ~link' => net'[d] = <<>>,
         ~link' /\ MaySend(d)' => (~link /\ MaySend(d)) \/ faults' = faults + 1
  PROVE  Numbered(d)'
  <1>1. Gap(d)' = Gap(d) /\ Gap(d) \in Nat /\ faults \in Nat
    BY GapTypes DEF Gap, Ahead
  <1>2. (Busy(net[d]))' => Newest(net'[d]).sn = sn'[Other(d)] /\ Gap(d)' # 0
    BY <1>1 DEF Numbered, Newest
  <1>3. CASE faults' = faults + 1
    <2>1. Gap(d) <= 2 * faults + 2
      BY <1>1 DEF Numbered
    <2>2. Gap(d)' <= 2 * faults'
      BY <1>1, <1>3, <2>1
    <2>3. Gap(d)' <= 2 * faults' + (IF Busy(net[d])' THEN 2 ELSE 1)
      BY <1>1, <1>3, <2>2
    <2> QED
      BY <1>2, <2>2, <2>3 DEF Numbered, Newest
  <1>4. CASE faults' = faults
    <2>1. faults' # faults + 1
      BY <1>1, <1>4
    <2>2. Busy(net[d]) <=> (Busy(net[d]))'
      BY <2>1
    <2>3. Gap(d)' <= 2 * faults' + (IF Busy(net[d])' THEN 2 ELSE 1)
      BY <1>1, <1>4, <2>2 DEF Numbered
    <2>4. ~link' /\ MaySend(d)' => Gap(d)' <= 2 * faults'
      BY <1>1, <1>4, <2>1 DEF Numbered
    <2> QED
      BY <1>2, <2>3, <2>4 DEF Numbered, Newest
  <1> QED
    BY <1>3, <1>4

\* What a sender may send when it has nothing on its way.
LEMMA SendNumbered ==
  ASSUME TypeOK, Few, NEW queues \in Queues, NEW d \in Side, NEW o \in Side, o = Other(d),
         Shape(queues[o]), ~Busy(queues[o]), NEW cmd, NEW arg, Fits(cmd, arg),
         NEW ok \in BOOLEAN, SendOver(queues, d, cmd, arg, ok), link' = link,
         last'[o] = last[o], Gap(o) <= 2 * faults + 1,
         ~link => queues[o] = <<>> /\ Gap(o) <= 2 * faults /\ ~MaySend(o)'
  PROVE  /\ Numbered(o)' /\ net'[d] = queues[d] /\ sn'[o] = sn[o]
         /\ faults' \in {faults, faults + 1}
  <1>1. /\ Other(o) = d /\ o # d /\ Gap(o) \in Nat /\ faults \in Nat
    BY GapTypes
  <1>2. sn' = [sn EXCEPT ![d] = (@ + 1) % SnMod] /\ Transmits(ok)
    BY DEF SendOver
  <1>3. Gap(o)' = Gap(o) + 1 /\ sn'[o] = sn[o]
    BY <1>2, GapGrows
  <1>4. /\ ok => link /\ faults' = faults
        /\ ~ok => (faults' = faults /\ ~link) \/ faults' = faults + 1
        /\ faults' \in {faults, faults + 1}
    BY <1>2 DEF Transmits, Fault, NoFault
  <1>5. CASE ~ok
    <2>1. net' = queues
      BY <1>5 DEF SendOver
    <2>2. ~(Busy(net[o]))'
      BY <2>1 DEF Busy
    <2>3. Gap(o)' <= 2 * faults' + 1
      BY <1>1, <1>3, <1>4, <1>5
    <2> QED
      BY <1>3, <1>4, <1>5, <2>1, <2>2, <2>3 DEF Numbered
  <1>6. CASE ok
    <2>1. PICK p \in Packet :
            /\ p.sn = (sn[d] + 1) % SnMod /\ ~p.again
            /\ net' = [queues EXCEPT ![o] = Append(@, p)]
      <3> DEFINE p == [cmd |-> cmd, sn |-> (sn[d] + 1) % SnMod, arg |-> arg,
                       again |-> FALSE]
      <3>1. (sn[d] + 1) % SnMod \in 0..SnMod - 1
        BY GapTypes, NextNumber
      <3>2. p \in Packet
        BY <3>1 DEF Packet, Fits
      <3>3. net' = [queues EXCEPT ![o] = Append(@, p)]
        BY <1>6 DEF SendOver
      <3> QED
        BY <3>2, <3>3
    <2>2. net'[o] = Append(queues[o], p) /\ net'[d] = queues[d]
      BY <1>1, <2>1 DEF Queues
    <2>3. Busy(Append(queues[o], p)) /\ Newest(Append(queues[o], p)) = p
      BY <2>1, QueueGets DEF Queues
    <2>4. (Busy(net[o]))' /\ (Newest(net[o]))' = p
      BY <2>2, <2>3 DEF Busy, Newest
    <2>5. sn'[d] = p.sn
      BY <1>2, <2>1 DEF TypeOK
    <2>6. Gap(o)' # 0 /\ Gap(o)' <= 2 * faults' + 2
      BY <1>1, <1>3, <1>4, <1>6
    <2> QED
      BY <1>1, <1>3, <1>4, <1>6, <2>2, <2>4, <2>5, <2>6 DEF Numbered, Newest
  <1> QED
    BY <1>5, <1>6

\* A step that numbers and takes nothing, and brings nothing under way.
LEMMA GapsKept ==
  ASSUME IInv, GapsOK, sn' = sn, last' = last, link' = link, faults' = faults,
         net' = net, SlaveJobs' = SlaveJobs \/ SlaveJobs' = <<>>,
         sem' = sem \/ sem' = 0, api' /\ first' => api /\ first,
         MasterVerifies' => MasterVerifies \/ sem > 0
  PROVE  GapsOK'
  <1>1. sem' > 0 => sem > 0
    OBVIOUS
  <1>2. Numbered("master")'
    <2>1. MaySend("master")' => MaySend("master")
      BY DEF MaySend
    <2> QED
      BY <2>1, SidesAre, NumberedKept DEF IInv, GapsOK, Busy, Newest, Numbered
  <1>3. Numbered("slave")'
    <2>1. MaySend("slave")' => MaySend("slave")
      BY <1>1 DEF MaySend
    <2> QED
      BY <2>1, SidesAre, NumberedKept DEF IInv, GapsOK, Busy, Newest, Numbered
  <1>4. CaughtUp'
    <2>1. Gap("master")' = Gap("master")
      BY SidesAre DEF Gap, Ahead
    <2>2. (SlaveBusy("INFO"))' => SlaveBusy("INFO")
      BY DEF SlaveBusy, Busy, Newest
    <2>3. Burns' => Burns
      BY DEF Burns
    <2> QED
      BY <1>1, <2>1, <2>2, <2>3 DEF GapsOK, CaughtUp
  <1> QED
    BY <1>2, <1>3, <1>4, SidesAre DEF GapsOK

\* The master sends a command: it may, and knows the last number of the slave
\* when the command is to burn.
LEMMA GapsMasterSends ==
  ASSUME IInv, PInv, GapsOK, Few, last' = last, sem' = 0,
         ~Busy(net["slave"]), ~Busy(net["master"]), SlaveJobs' = <<>>,
         NEW cmd, NEW arg, Fits(cmd, arg), NEW ok \in BOOLEAN,
         Send("master", cmd, arg, ok), link \/ (MaySend("slave") /\ ~first'),
         ~MasterVerifies', cmd = "INFO" => Gap("master") = 0
  PROVE  GapsOK'
  <1>1. /\ TypeOK /\ QueuesOK /\ net \in Queues /\ Shape(net["slave"])
        /\ SendOver(net, "master", cmd, arg, ok) /\ link' = link
        /\ Numbered("slave") /\ Numbered("master")
    BY SidesAre DEF IInv, PInv, TypeOK, Queues, QueuesOK, Fine, Send, GapsOK
  <1>2. ~link => net["slave"] = <<>> /\ Gap("slave") <= 2 * faults /\ ~MaySend("slave")'
    BY <1>1 DEF Numbered, MaySend
  <1>3. Gap("slave") <= 2 * faults + 1
    BY <1>1 DEF Numbered
  <1>4. /\ Numbered("slave")' /\ net'["master"] = net["master"]
        /\ sn'["slave"] = sn["slave"] /\ faults' \in {faults, faults + 1}
    BY <1>1, <1>2, <1>3, SidesAre, SendNumbered
  <1>5. Numbered("master")'
    <2>1. ~MaySend("master")' /\ (~link' => net'["master"] = <<>>)
      BY <1>1, <1>4 DEF MaySend, Numbered
    <2> QED
      BY <1>1, <1>4, <2>1, SidesAre, NumberedKept DEF Busy, Newest
  <1>6. CaughtUp'
    <2>1. Gap("master")' = Gap("master")
      BY <1>4, SidesAre DEF Gap, Ahead
    <2>2. (SlaveBusy("INFO"))' => cmd = "INFO"
      <3>1. /\ ok => Newest(net'["slave"]).cmd = cmd
            /\ ~ok => net'["slave"] = net["slave"]
        BY <1>1, SidesAre, SendKeepsQueues
      <3> QED
        BY <3>1 DEF SlaveBusy, Busy, Newest
    <2>3. ~Burns'
      BY DEF Burns
    <2> QED
      BY <2>1, <2>2, <2>3 DEF CaughtUp
  <1> QED
    BY <1>4, <1>5, <1>6, SidesAre DEF GapsOK

\* The slave answers, and has nothing left to do; queues are the packets that
\* were on their way.
LEMMA GapsSlaveSends ==
  ASSUME IInv, PInv, GapsOK, Few, NEW queues \in Queues, Shape(queues["master"]),
         queues["master"] = net["master"], ~Busy(queues["slave"]), ~Busy(net["master"]),
         ~link => queues["slave"] = <<>> /\ SlaveJobs # <<>>,
         sem' = 0, SlaveJobs' = <<>>, ~MasterVerifies', link' = link,
         NEW cmd, NEW arg, Fits(cmd, arg), NEW ok \in BOOLEAN,
         SendOver(queues, "slave", cmd, arg, ok),
         last'["master"] = last["master"],
         \/ last' = last /\ queues["slave"] = net["slave"]
         \/ last'["slave"] = sn["master"],
         link \/ (MaySend("slave")' => MaySend("slave"))
  PROVE  GapsOK'
  <1>1. TypeOK /\ QueuesOK /\ Numbered("slave") /\ Numbered("master")
    BY SidesAre DEF IInv, PInv, GapsOK
  <1>2. ~link => /\ queues["master"] = <<>> /\ Gap("master") <= 2 * faults
                 /\ ~MaySend("master")'
    BY <1>1 DEF Numbered, MaySend
  <1>3. Gap("master") <= 2 * faults + 1
    BY <1>1 DEF Numbered
  <1>4. /\ Numbered("master")' /\ net'["slave"] = queues["slave"]
        /\ sn'["master"] = sn["master"] /\ faults' \in {faults, faults + 1}
    BY <1>1, <1>2, <1>3, SidesAre, SendNumbered
  <1>5. ~(Busy(net["slave"]))'
    BY <1>4 DEF Busy
  <1>6. Numbered("slave")'
    <2>1. CASE last' = last /\ queues["slave"] = net["slave"]
      <3>1. ~link' => net'["slave"] = <<>>
        BY <1>4
      <3>2. ~Busy(net["slave"])
        BY <2>1
      <3> QED
        BY <1>1, <1>4, <1>5, <2>1, <3>1, <3>2, SidesAre, NumberedKept
    <2>2. CASE last'["slave"] = sn["master"]
      <3>1. Gap("slave")' = 0
        <4>1. sn["master"] \in Int
          BY <1>1, SidesAre DEF TypeOK
        <4> QED
          BY <1>4, <2>2, <4>1, SidesAre DEF Gap, Ahead
      <3>2. faults \in Nat
        BY <1>1, GapTypes
      <3> QED
        BY <1>4, <1>5, <3>1, <3>2 DEF Numbered
    <2> QED
      BY <2>1, <2>2
  <1>7. CaughtUp'
    BY <1>5 DEF CaughtUp, SlaveBusy, Burns
  <1> QED
    BY <1>4, <1>6, <1>7, SidesAre DEF GapsOK

\* The steps of the master that send nothing.
LEMMA GapsOtaCheck ==
  ASSUME Prompt, IInv, PInv, GapsOK, Few, OtaCheck, ~overlap'
  PROVE  GapsOK'
  <1>1. /\ TypeOK /\ Quiet /\ last' = last /\ pc = "none"
    BY DEF OtaCheck, IInv
  <1>2. /\ ~Busy(net["slave"]) /\ ~Busy(net["master"]) /\ SlaveJobs = <<>>
    BY <1>1, QuietIsIdle
  <1>3. CASE NoRoom
    <2>1. /\ MasterLib(Closed) /\ net' = net /\ sn' = sn /\ link' = link
          /\ faults' = faults /\ sem' = sem /\ api' = api /\ first' = first
      BY <1>3 DEF NoRoom, netVars, waitVars
    <2>2. MasterJobs' = <<>> /\ SlaveJobs' = SlaveJobs
      BY <1>1, <2>1, MasterLibIs, NoJobs
    <2> QED
      BY <1>1, <2>1, <2>2, GapsKept DEF MasterVerifies
  <1>4. CASE Alone
    <2>1. /\ MasterLib(Opened) /\ net' = net /\ sn' = sn /\ link' = link
          /\ faults' = faults /\ sem' = sem /\ api' = FALSE
      BY <1>4 DEF Alone, netVars
    <2>2. SlaveJobs' = SlaveJobs
      BY <1>1, <2>1, MasterLibIs
    <2> QED
      BY <1>1, <2>1, <2>2, GapsKept DEF MasterVerifies
  <1>5. CASE TwsOtaOpen
    <2>0. PICK ok \in BOOLEAN :
            /\ Send("master", "START", 0, ok)
            /\ MasterLib(IF ok THEN Opened ELSE Closed)
      BY <1>5 DEF TwsOtaOpen
    <2>1. sem' = 0 /\ link
      BY <1>5 DEF TwsOtaOpen
    <2>2. MasterJobs' = <<>> /\ SlaveJobs' = <<>>
      BY <1>1, <1>2, <2>0, MasterLibIs, NoJobs
    <2>3. Fits("START", 0) /\ "START" # "INFO"
      BY DEF Fits, Command
    <2> QED
      BY <1>1, <1>2, <2>0, <2>1, <2>2, <2>3, GapsMasterSends DEF MasterVerifies
  <1> QED
    BY <1>3, <1>4, <1>5 DEF OtaCheck

LEMMA GapsStays ==
  ASSUME Prompt, IInv, PInv, GapsOK,
         StartWaits \/ CheckCrc \/ VerifyWaits \/ InfoWaits \/ PhoneLeaves
           \/ MasterWrote \/ MasterBurnt
  PROVE  GapsOK'
  <1>1. /\ TypeOK /\ net' = net /\ sn' = sn /\ link' = link /\ last' = last
        /\ faults' = faults /\ api' = api /\ first' = first
    BY DEF IInv, StartWaits, CheckCrc, VerifyWaits, InfoWaits, PhoneLeaves, MasterWrote,
           MasterBurnt, netVars, waitVars, phoneVars
  <1>2. sem' = sem \/ sem' = 0
    <2>1. sem' = sem \/ (Answered /\ sem' = sem - 1)
      BY DEF StartWaits, CheckCrc, VerifyWaits, InfoWaits, PhoneLeaves, MasterWrote,
             MasterBurnt, waitVars
    <2> QED
      BY <2>1, TokenIsAll DEF Answered
  <1>4. SlaveJobs' = SlaveJobs
    <2>1. lib' = lib \/ \E l : MasterLib(l)
      BY DEF StartWaits, CheckCrc, VerifyWaits, InfoWaits, PhoneLeaves, MasterWrote,
             MasterBurnt
    <2> QED
      BY <1>1, <2>1, MasterLibIs DEF SlaveJobs
  <1>5. MasterVerifies' => MasterVerifies \/ sem > 0
    <2>1. CASE lib' = lib
      BY <1>1, <2>1, Constants DEF MasterVerifies, MasterJobs
    <2>2. CASE MasterLib(Closed)
      <3>1. MasterJobs' = <<>>
        BY <1>1, <2>2, MasterLibIs, NoJobs
      <3> QED
        BY <3>1 DEF MasterVerifies
    <2>3. CASE CheckCrc
      BY <1>1, <2>1, <2>3 DEF CheckCrc, MasterVerifies
    <2>4. CASE VerifyWaits
      BY <2>1, <2>4 DEF VerifyWaits, Answered
    <2>5. CASE InfoWaits /\ lib' # lib
      <3>1. MasterLib(Given(lib["master"], Burn)) /\ MasterJobs = <<>>
        BY <2>5 DEF InfoWaits, IInv, JobsOK
      <3>2. MasterJobs' # <<>> => MasterJobs'[1] = Burn
        BY <1>1, <3>1, MasterGets, JobTypes
      <3> QED
        BY <3>2, KindsOfJob, Constants DEF MasterVerifies
    <2>6. CASE MasterWrote
      <3>1. PICK p \in 1..NumPackets :
              /\ Job("master", Write(p))
              /\ \E stored \in {p, SPOILT} : MasterLib(Stored(lib["master"], stored))
        BY <2>6 DEF MasterWrote
      <3>2. PICK stored : MasterLib(Stored(lib["master"], stored))
        BY <3>1
      <3>3. Done(lib["master"]).jobs = <<>> /\ Done(lib["master"]) \in Lib
        BY <3>1, MasterJobEnds
      <3>4. Stored(lib["master"], stored).jobs = <<>>
        BY <3>3 DEF Stored, Lib
      <3>5. MasterJobs' = <<>>
        BY <1>1, <3>2, <3>4, MasterLibIs
      <3> QED
        BY <3>5 DEF MasterVerifies
    <2>7. CASE MasterBurnt /\ MasterLib(Done(lib["master"]))
      <3>1. Done(lib["master"]).jobs = <<>>
        BY <2>7, MasterJobEnds DEF MasterBurnt
      <3>2. MasterJobs' = <<>>
        BY <1>1, <2>7, <3>1, MasterLibIs
      <3> QED
        BY <3>2 DEF MasterVerifies
    <2> QED
      BY <2>1, <2>2, <2>3, <2>4, <2>5, <2>6, <2>7
      DEF StartWaits, PhoneLeaves, MasterBurnt
  <1> QED
    BY <1>1, <1>2, <1>4, <1>5, GapsKept

\* The master passes a packet on, or asks for the verification or the burn.
LEMMA GapsWritePacket ==
  ASSUME IInv, PInv, GapsOK, Few, WritePacket, MasterJobs = <<>>, want \in 1..NumPackets,
         api => (Still /\ first) \/ sem > 0
  PROVE  GapsOK'
  <1>1. /\ TypeOK /\ MasterLib(Given(lib["master"], Write(want)))
        /\ first' = FALSE /\ last' = last /\ api' = api
    BY DEF WritePacket, IInv
  <1>2. SlaveJobs' = SlaveJobs /\ ~MasterVerifies'
    <2>1. /\ SlaveJobs' = SlaveJobs
          /\ MasterJobs' # <<>> => MasterJobs'[1] = Write(want)
      BY <1>1, MasterGets, JobTypes
    <2> QED
      BY <2>1, KindsOfJob, Constants DEF MasterVerifies
  <1>3. CASE ~api
    <2>1. net' = net /\ sem' = sem /\ sn' = sn /\ link' = link /\ faults' = faults
      BY <1>3 DEF WritePacket, netVars
    <2> QED
      BY <1>1, <1>2, <2>1, GapsKept
  <1>4. CASE api
    <2>0. PICK ok \in BOOLEAN : Send("master", "DATA", want, ok)
      BY <1>4 DEF WritePacket
    <2>1. sem' = 0
      BY <1>4 DEF WritePacket
    <2>2. ~Busy(net["slave"]) /\ ~Busy(net["master"]) /\ SlaveJobs = <<>>
      BY <1>4, TokenIsAll DEF Still
    <2>3. MaySend("slave")
      BY <1>4 DEF MaySend
    <2>4. Fits("DATA", want) /\ "DATA" # "INFO"
      BY DEF Fits
    <2> QED
      BY <1>1, <1>2, <2>0, <2>1, <2>2, <2>3, <2>4, GapsMasterSends
  <1> QED
    BY <1>3, <1>4

LEMMA GapsMaster ==
  ASSUME Prompt, IInv, PInv, GapsOK, Few,
         TransData \/ DataWaits \/ LastWaits \/ MasterVerified
  PROVE  GapsOK'
  <1>1. TypeOK /\ last' = last /\ api' = api
    BY DEF IInv, TransData, DataWaits, LastWaits, MasterVerified, WritePacket
  <1>2. ASSUME net' = net, sn' = sn, link' = link, faults' = faults, lib' = lib,
               sem' = sem, first' = first
        PROVE  GapsOK'
    BY <1>1, <1>2, GapsKept, Constants DEF MasterVerifies, MasterJobs, SlaveJobs
  <1>3. CASE TransData
    <2>1. pc = "none" /\ phone = "sends" /\ want \in 1..NumPackets /\ MasterJobs = <<>>
      BY <1>3 DEF TransData, IInv, JobsOK
    <2>2. CASE api /\ ~first
      BY <1>2, <1>3, <2>2 DEF TransData, netVars, phoneVars
    <2>3. CASE ~(api /\ ~first)
      <3>1. WritePacket
        BY <1>3, <2>3 DEF TransData
      <3>2. api => Still /\ first
        BY <2>1, <2>3 DEF PInv, WaitsOK
      <3> QED
        BY <2>1, <3>1, <3>2, GapsWritePacket
    <2> QED
      BY <2>2, <2>3
  <1>4. CASE DataWaits
    <2>1. MasterJobs = <<>> /\ want \in 1..NumPackets
      BY <1>4 DEF DataWaits, IInv, JobsOK, DataIsPacket
    <2>2. CASE Answered /\ WritePacket
      BY <2>1, <2>2, GapsWritePacket DEF Answered
    <2>3. CASE ~(Answered /\ WritePacket)
      BY <1>2, <1>4, <2>3 DEF DataWaits, netVars, phoneVars
    <2> QED
      BY <2>2, <2>3
  <1>5. CASE LastWaits
    <2>1. MasterJobs = <<>> /\ ~first /\ first' = first /\ lib' = lib
      BY <1>5 DEF LastWaits, IInv, JobsOK, PInv, WaitsOK, phoneVars
    <2>2. CASE Answered /\ sem' = 0 /\ \E ok \in BOOLEAN : Send("master", "VERIFY", 0, ok)
      <3>1. PICK ok \in BOOLEAN : Send("master", "VERIFY", 0, ok)
        BY <2>2
      <3>2. ~Busy(net["slave"]) /\ ~Busy(net["master"]) /\ SlaveJobs = <<>>
        BY <2>2, TokenIsAll DEF Answered
      <3>3. SlaveJobs' = <<>> /\ ~MasterVerifies' /\ MaySend("slave")
        BY <2>1, <2>2, <3>2 DEF SlaveJobs, MasterVerifies, MasterJobs, MaySend, Answered
      <3>4. Fits("VERIFY", 0) /\ "VERIFY" # "INFO"
        BY DEF Fits, Command
      <3> QED
        BY <1>1, <2>1, <2>2, <3>1, <3>2, <3>3, <3>4, GapsMasterSends
    <2>3. CASE UNCHANGED <<netVars, sem, faults>>
      BY <1>2, <2>1, <2>3 DEF netVars
    <2> QED
      BY <1>5, <2>2, <2>3 DEF LastWaits
  <1>6. CASE MasterVerified
    <2>1. /\ Job("master", Verify) /\ sem' = sem /\ first' = first
      BY <1>6 DEF MasterVerified
    <2>2. /\ MasterJobs # <<>> /\ MasterJobs[1] = Verify /\ ~first
          /\ Done(lib["master"]).jobs = <<>>
      BY <2>1, MasterJobEnds DEF PInv, WaitsOK
    <2>3. CASE lib["master"].image = Image /\ api
      <3>1. PICK ok \in BOOLEAN : Send("master", "INFO", 0, ok)
        BY <1>6, <2>3 DEF MasterVerified
      <3>2. MasterLib(Done(lib["master"]))
        BY <1>6, <2>3 DEF MasterVerified
      <3>3. /\ ~Busy(net["slave"]) /\ ~Busy(net["master"]) /\ SlaveJobs = <<>>
            /\ sem = 0
        BY <2>2, <2>3 DEF PInv, VerifiedOK, Still
      <3>4. SlaveJobs' = <<>> /\ MasterJobs' = <<>>
        BY <1>1, <2>2, <3>2, <3>3, MasterLibIs
      <3>5. MasterVerifies /\ ~MasterVerifies'
        BY <2>2, <2>3, <3>4 DEF MasterVerifies
      <3>6. MaySend("slave") /\ Gap("master") = 0
        BY <3>5 DEF MaySend, GapsOK, CaughtUp
      <3>7. Fits("INFO", 0)
        BY DEF Fits, Command
      <3> QED
        BY <1>1, <2>1, <2>2, <3>1, <3>3, <3>4, <3>5, <3>6, <3>7, GapsMasterSends
    <2>4. CASE ~(lib["master"].image = Image /\ api)
      <3>1. /\ net' = net /\ sn' = sn /\ link' = link /\ faults' = faults
            /\ MasterLib(Closed) \/ (~api /\ \E l : MasterLib(l))
        BY <1>6, <2>4 DEF MasterVerified, netVars
      <3>2. SlaveJobs' = SlaveJobs /\ ~MasterVerifies'
        BY <1>1, <3>1, MasterLibIs, NoJobs DEF MasterVerifies
      <3> QED
        BY <1>1, <2>1, <3>1, <3>2, GapsKept
    <2> QED
      BY <2>3, <2>4
  <1> QED
    BY <1>3, <1>4, <1>5, <1>6

\* What d takes from its queue: a repeat, or the one new packet, whose number
\* is the last of its sender.
LEMMA TakesTheLast ==
  ASSUME TypeOK, QueuesOK, NEW d \in Side, Numbered(d), net[d] # <<>>,
         NEW r \in Taken(net[d])
  PROVE  /\ Repeats(d) <=> net[d][1].again
         /\ Head(net[d]) = net[d][1]
         /\ Repeats(d) => /\ Busy(r) <=> Busy(net[d])
                          /\ Busy(r) => Newest(r) = Newest(net[d])
         /\ ~Repeats(d) => /\ Busy(net[d]) /\ ~Busy(r)
                           /\ Head(net[d]).sn = sn[Other(d)]
         /\ r \in Seq(Packet) /\ Shape(r) /\ link
  <1>1. net[d] \in Seq(Packet) /\ Shape(net[d])
    BY DEF TypeOK, QueuesOK, Fine
  <1>2. /\ r \in Seq(Packet) /\ Shape(r) /\ Head(net[d]) = net[d][1]
        /\ ~net[d][1].again => Busy(net[d]) /\ Newest(net[d]) = net[d][1] /\ ~Busy(r)
        /\ net[d][1].again => /\ Busy(r) <=> Busy(net[d])
                              /\ Busy(net[d]) => Newest(r) = Newest(net[d])
    BY <1>1, QueueLeft
  <1>3. ~net[d][1].again => Head(net[d]).sn = sn[Other(d)] /\ sn[Other(d)] # last[d]
    BY <1>2, GapTypes DEF Numbered
  <1>4. net[d][1].again => Repeats(d)
    BY <1>2 DEF Repeats, QueuesOK, Fine
  <1>5. ~net[d][1].again => ~Repeats(d)
    BY <1>3 DEF Repeats
  <1> QED
    BY <1>2, <1>3, <1>4, <1>5 DEF Numbered

\* A side that has taken the last packet of the other is up to date.
LEMMA UpToDate ==
  ASSUME TypeOK, NEW d \in Side, last'[d] = sn[Other(d)], sn'[Other(d)] = sn[Other(d)],
         ~(Busy(net[d]))', link', faults' \in Nat
  PROVE  Numbered(d)' /\ Gap(d)' = 0
  <1>1. sn[Other(d)] \in Int
    BY GapTypes
  <1>2. Gap(d)' = 0
    BY <1>1 DEF Gap, Ahead
  <1>3. 0 <= 2 * faults' /\ 0 <= 2 * faults' + 1
    <2>1. \A f \in Nat : 0 <= 2 * f /\ 0 <= 2 * f + 1
      OBVIOUS
    <2> QED
      BY <2>1
  <1>4. Gap(d)' <= 2 * faults' /\ Gap(d)' <= 2 * faults' + 1
    BY <1>2, <1>3
  <1>5. Gap(d)' <= 2 * faults' + (IF Busy(net[d])' THEN 2 ELSE 1)
    BY <1>4
  <1> QED
    BY <1>2, <1>4, <1>5 DEF Numbered

LEMMA GapsMasterReceives ==
  ASSUME IInv, PInv, GapsOK, MasterReceives
  PROVE  GapsOK'
  <1>1. /\ TypeOK /\ QueuesOK /\ net["master"] # <<>> /\ api' = api /\ first' = first
        /\ lib' = lib /\ sn' = sn /\ link' = link /\ faults' = faults
        /\ Numbered("slave") /\ Numbered("master") /\ faults \in Nat
    BY SidesAre, GapTypes DEF MasterReceives, IInv, phoneVars, PInv, GapsOK
  <1>2. PICK r \in Taken(net["master"]) : net' = [net EXCEPT !["master"] = r]
    BY DEF MasterReceives
  <1>3. /\ last' = [last EXCEPT !["master"] = Head(net["master"]).sn]
        /\ sem' = IF /\ ~Repeats("master") /\ Head(net["master"]).cmd \in Answer
                     /\ Head(net["master"]).arg = SUCC
                    THEN sem + 1 ELSE sem
    BY DEF MasterReceives
  <1>4. /\ last'["master"] = Head(net["master"]).sn /\ last'["slave"] = last["slave"]
        /\ net'["master"] = r /\ net'["slave"] = net["slave"]
    BY <1>1, <1>2, <1>3 DEF TypeOK, Side
  <1>5. /\ Repeats("master") =>
             /\ Busy(r) <=> Busy(net["master"])
             /\ Busy(r) => Newest(r) = Newest(net["master"])
        /\ ~Repeats("master") => /\ Busy(net["master"]) /\ ~Busy(r)
                                 /\ Head(net["master"]).sn = sn[Other("master")]
        /\ link
    BY <1>1, SidesAre, TakesTheLast
  <1>6. /\ SlaveJobs' = SlaveJobs /\ (MasterVerifies' <=> MasterVerifies)
        /\ Burns' <=> Burns
    BY <1>1, Constants DEF SlaveJobs, MasterVerifies, MasterJobs, Burns
  <1>7. Numbered("slave")'
    BY <1>1, <1>4, <1>5, SidesAre, NumberedKept DEF Busy, Newest
  <1>8. CASE Repeats("master")
    <2>1. last'["master"] = last["master"] /\ sem' = sem
      BY <1>3, <1>4, <1>8 DEF Repeats
    <2>2. Numbered("master")'
      BY <1>1, <1>4, <1>5, <1>8, <2>1, SidesAre, NumberedKept DEF Busy, Newest
    <2>3. Gap("master")' = Gap("master")
      BY <1>1, <2>1, SidesAre DEF Gap, Ahead
    <2>4. (SlaveBusy("INFO"))' => SlaveBusy("INFO")
      BY <1>4 DEF SlaveBusy, Busy, Newest
    <2>5. CaughtUp'
      BY <1>6, <2>1, <2>3, <2>4 DEF GapsOK, CaughtUp
    <2> QED
      BY <1>7, <2>2, <2>5, SidesAre DEF GapsOK
  <1>9. CASE ~Repeats("master")
    <2>1. ~(Busy(net["master"]))'
      BY <1>4, <1>5, <1>9 DEF Busy
    <2>2. Numbered("master")' /\ Gap("master")' = 0
      BY <1>1, <1>4, <1>5, <1>9, <2>1, SidesAre, UpToDate
    <2> QED
      BY <1>7, <2>2, SidesAre DEF GapsOK, CaughtUp
  <1> QED
    BY <1>8, <1>9

LEMMA GapsSlaveReceives ==
  ASSUME IInv, PInv, GapsOK, Few, SlaveReceives
  PROVE  GapsOK'
  <1>1. /\ TypeOK /\ JobsOK /\ QueuesOK /\ net["slave"] # <<>> /\ api' = api
        /\ first' = first /\ sem' = sem /\ link' = link
        /\ Numbered("slave") /\ Numbered("master") /\ faults \in Nat
    BY SidesAre, GapTypes DEF SlaveReceives, waitVars, phoneVars, IInv, PInv, GapsOK
  <1>2. PICK r \in Taken(net["slave"]) :
          IF Repeats("slave")
            THEN Silent(r) /\ UNCHANGED <<lib, last, timer>>
            ELSE /\ Handles(Head(net["slave"]), r)
                 /\ last' = [last EXCEPT !["slave"] = Head(net["slave"]).sn]
                 /\ timer' = TRUE
    BY DEF SlaveReceives
  <1>3. /\ Repeats("slave") =>
             /\ Busy(r) <=> Busy(net["slave"])
             /\ Busy(r) => Newest(r) = Newest(net["slave"])
        /\ ~Repeats("slave") => /\ Busy(net["slave"]) /\ ~Busy(r)
                                /\ Head(net["slave"]).sn = sn["master"]
        /\ r \in Seq(Packet) /\ Shape(r) /\ link
    BY <1>1, SidesAre, TakesTheLast
  <1>4. ASSUME Silent(r)
        PROVE  /\ net'["slave"] = r /\ net'["master"] = net["master"]
               /\ sn' = sn /\ faults' = faults
    BY <1>1, <1>4 DEF Silent, Left, TypeOK, Side
  <1>5. CASE Repeats("slave")
    <2>1. /\ net'["slave"] = r /\ net'["master"] = net["master"]
          /\ sn' = sn /\ faults' = faults /\ lib' = lib /\ last' = last
      BY <1>2, <1>4, <1>5
    <2>2. Numbered("slave")' /\ Numbered("master")'
      BY <1>1, <1>3, <1>5, <2>1, SidesAre, NumberedKept DEF Busy, Newest
    <2>3. Gap("master")' = Gap("master")
      BY <2>1, SidesAre DEF Gap, Ahead
    <2>4. (SlaveBusy("INFO"))' => SlaveBusy("INFO")
      BY <1>3, <1>5, <2>1 DEF SlaveBusy, Busy, Newest
    <2>5. (MasterVerifies' <=> MasterVerifies) /\ (Burns' <=> Burns)
      BY <1>1, <2>1, Constants DEF MasterVerifies, MasterJobs, Burns, SlaveJobs
    <2>6. CaughtUp'
      BY <1>1, <2>3, <2>4, <2>5 DEF GapsOK, CaughtUp
    <2> QED
      BY <2>2, <2>6, SidesAre DEF GapsOK
  <1>6. CASE ~Repeats("slave")
    <2> DEFINE h == Head(net["slave"])
    <2>1. /\ Handles(h, r) /\ last' = [last EXCEPT !["slave"] = h.sn] /\ h \in Packet
          /\ h.sn = sn["master"] /\ Busy(net["slave"]) /\ ~Busy(r)
      BY <1>1, <1>2, <1>3, <1>6, SidesAre DEF TypeOK
    <2>2. last'["slave"] = sn["master"] /\ last'["master"] = last["master"]
      BY <1>1, <2>1 DEF TypeOK, Side
    <2>3. Newest(net["slave"]) = h
      <3>1. ~net["slave"][1].again /\ h = net["slave"][1]
        BY <1>1, <1>6, SidesAre, TakesTheLast
      <3>2. net["slave"] \in Seq(Packet) /\ Shape(net["slave"])
        BY <1>1, SidesAre DEF TypeOK, QueuesOK, Fine
      <3> QED
        BY <1>1, <3>1, <3>2, QueueLeft
    <2> HIDE DEF h
    <2>4. /\ sem = 0 /\ SlaveJobs = <<>> /\ ~Busy(net["master"]) /\ ~MasterVerifies
      BY <2>1 DEF PInv, OneAtATime, VerifiedOK, Still, MasterVerifies
    <2>5. h.cmd = "INFO" => Gap("master") = 0
      BY <2>1, <2>3 DEF GapsOK, CaughtUp, SlaveBusy
    <2>6. ASSUME lib'["master"] = lib["master"]
          PROVE  ~MasterVerifies'
      BY <1>1, <2>4, <2>6, Constants DEF MasterVerifies, MasterJobs
    <2>7. ASSUME NEW op \in Jobs, SlaveLib(Given(lib["slave"], op)), Silent(r),
                 op = Burn => Gap("master") = 0
          PROVE  GapsOK'
      <3>1. /\ net'["slave"] = r /\ net'["master"] = net["master"]
            /\ sn' = sn /\ faults' = faults
        BY <1>4, <2>7
      <3>2. /\ SlaveJobs' # <<>> => SlaveJobs'[1] = op
            /\ lib'["master"] = lib["master"]
        BY <1>1, <2>4, <2>7, SlaveGets
      <3>3. ~(Busy(net["slave"]))'
        BY <2>1, <3>1 DEF Busy
      <3>4. Numbered("slave")'
        BY <1>1, <1>3, <2>2, <3>1, <3>3, SidesAre, UpToDate
      <3>5. Numbered("master")'
        BY <1>1, <1>3, <2>2, <3>1, SidesAre, NumberedKept DEF Busy, Newest
      <3>6. Gap("master")' = Gap("master")
        BY <2>2, <3>1, SidesAre DEF Gap, Ahead
      <3>7. ~MasterVerifies' /\ ~(SlaveBusy("INFO"))' /\ (Burns' => op = Burn)
        BY <2>6, <3>2, <3>3, Constants DEF SlaveBusy, Burns
      <3>8. CaughtUp'
        BY <1>1, <2>4, <2>7, <3>6, <3>7 DEF CaughtUp
      <3> QED
        BY <3>4, <3>5, <3>8, SidesAre DEF GapsOK
    <2>8. ASSUME NEW cmd, NEW arg, Fits(cmd, arg), NEW ok \in BOOLEAN,
                 Replies(r, cmd, arg, ok), SlaveJobs' = <<>>,
                 lib'["master"] = lib["master"]
          PROVE  GapsOK'
      <3>1. PICK q : q = Left(r)
        OBVIOUS
      <3>2. /\ q \in Queues /\ q["slave"] = r /\ q["master"] = net["master"]
            /\ Shape(q["master"]) /\ SendOver(q, "slave", cmd, arg, ok)
        BY <1>1, <1>3, <2>8, <3>1, SidesAre
        DEF Left, Queues, TypeOK, Replies, QueuesOK, Fine
      <3>3. ~Busy(q["slave"])
        BY <2>1, <3>2
      <3> QED
        BY <1>1, <1>3, <2>2, <2>4, <2>6, <2>8, <3>2, <3>3, GapsSlaveSends
    <2>9. CASE h.cmd = "START" /\ Starts(r)
      <3>1. PICK arg \in {SUCC, ERR}, ok \in BOOLEAN :
              SlaveLib(Opened) /\ Replies(r, "START_RSP", arg, ok)
        BY <2>9 DEF Starts
      <3>2. Fits("START_RSP", arg)
        BY <3>1 DEF Fits, Answer, Command
      <3>3. SlaveJobs' = <<>> /\ lib'["master"] = lib["master"]
        BY <1>1, <3>1, SlaveLibIs, NoJobs
      <3> QED
        BY <2>8, <3>1, <3>2, <3>3
    <2>10. CASE h.cmd = "DATA" /\ SlaveLib(Given(lib["slave"], Write(h.arg))) /\ Silent(r)
      <3>1. Write(h.arg) \in Jobs
        <4>1. h.arg \in 1..NumPackets
          BY <2>1, <2>10 DEF Packet, Command, Answer
        <4> QED
          BY <4>1, JobTypes
      <3> QED
        BY <2>7, <2>10, <3>1, KindsOfJob
    <2>11. CASE h.cmd = "VERIFY" /\ Verifies(r)
      <3>1. CASE lib["slave"].open
        BY <2>7, <2>11, <3>1, JobTypes, KindsOfJob DEF Verifies
      <3>2. CASE ~lib["slave"].open
        <4>1. PICK arg \in {SUCC, ERR}, ok \in BOOLEAN : Replies(r, "VERIFY_RSP", arg, ok)
          BY <2>11, <3>2 DEF Verifies
        <4>2. lib' = lib
          BY <2>11, <3>2 DEF Verifies
        <4>3. Fits("VERIFY_RSP", arg) /\ SlaveJobs' = <<>>
          BY <2>4, <4>1, <4>2 DEF Fits, Answer, Command, SlaveJobs
        <4> QED
          BY <2>8, <4>1, <4>2, <4>3
      <3> QED
        BY <3>1, <3>2
    <2>12. CASE h.cmd = "INFO" /\ SlaveLib(Given(lib["slave"], Burn)) /\ Silent(r)
      BY <2>5, <2>7, <2>12, JobTypes
    <2> QED
      BY <2>1, <2>9, <2>10, <2>11, <2>12 DEF Handles
  <1> QED
    BY <1>5, <1>6

\* The slave ends a job with an answer.
LEMMA GapsSlaveEnds ==
  ASSUME IInv, PInv, GapsOK, Few, NEW op, Job("slave", op), NEW l, l.jobs = <<>>,
         SlaveLib(l), NEW cmd, NEW arg, Fits(cmd, arg), NEW ok \in BOOLEAN,
         Send("slave", cmd, arg, ok), last' = last, sem' = sem, api' = api,
         first' = first
  PROVE  GapsOK'
  <1>1. /\ TypeOK /\ QueuesOK /\ ~Still /\ sem = 0 /\ ~Busy(net["slave"])
        /\ ~Busy(net["master"]) /\ SlaveJobs # <<>>
    BY SlaveEnds DEF IInv, PInv
  <1>2. SlaveJobs' = <<>> /\ MasterJobs' = MasterJobs
    BY <1>1, SlaveLibIs
  <1>3. ~MasterVerifies /\ ~MasterVerifies'
    BY <1>1, <1>2, Constants DEF PInv, VerifiedOK, MasterVerifies
  <1>4. MaySend("slave")' => MaySend("slave")
    BY <1>3 DEF MaySend
  <1>5. PICK queues : queues = net
    OBVIOUS
  <1>6. /\ queues \in Queues /\ Shape(queues["master"])
        /\ queues["master"] = net["master"] /\ queues["slave"] = net["slave"]
        /\ SendOver(queues, "slave", cmd, arg, ok) /\ link' = link
    BY <1>1, <1>5, SidesAre DEF Queues, TypeOK, QueuesOK, Fine, Send
  <1>7. ~link => queues["slave"] = <<>>
    BY <1>6, SidesAre DEF GapsOK, Numbered
  <1>8. ~Busy(queues["slave"]) /\ sem' = 0
    BY <1>1, <1>6
  <1> QED
    BY <1>1, <1>2, <1>3, <1>4, <1>6, <1>7, <1>8, GapsSlaveSends

LEMMA GapsSlaveWorks ==
  ASSUME IInv, PInv, GapsOK, Few, SlaveWrote \/ SlaveVerified \/ SlaveBurnt
  PROVE  GapsOK'
  <1>1. /\ last' = last /\ sem' = sem /\ api' = api /\ first' = first /\ TypeOK
    BY DEF SlaveWrote, SlaveVerified, SlaveBurnt, waitVars, phoneVars, IInv
  <1>2. CASE SlaveWrote
    <2>1. PICK p \in 1..NumPackets, ok \in BOOLEAN :
            /\ Job("slave", Write(p))
            /\ \E stored \in {p, SPOILT} : SlaveLib(Stored(lib["slave"], stored))
            /\ Send("slave", "DATA_RSP", SUCC, ok)
      BY <1>2 DEF SlaveWrote
    <2>2. PICK stored : SlaveLib(Stored(lib["slave"], stored))
      BY <2>1
    <2>3. Done(lib["slave"]).jobs = <<>> /\ Done(lib["slave"]) \in Lib
      BY <2>1, SlaveEnds, SlaveJobEnds
    <2>4. Stored(lib["slave"], stored).jobs = <<>>
      BY <2>3 DEF Stored, Lib
    <2>5. Fits("DATA_RSP", SUCC)
      BY DEF Fits, Answer, Command
    <2> QED
      BY <1>1, <2>1, <2>2, <2>4, <2>5, GapsSlaveEnds
  <1>3. CASE SlaveVerified
    <2>1. /\ Job("slave", Verify) /\ SlaveLib(Done(lib["slave"]))
          /\ Done(lib["slave"]).jobs = <<>>
      BY <1>3, SlaveEnds DEF SlaveVerified
    <2>2. PICK arg \in {SUCC, ERR}, ok \in BOOLEAN : Send("slave", "VERIFY_RSP", arg, ok)
      BY <1>3 DEF SlaveVerified
    <2>3. Fits("VERIFY_RSP", arg)
      BY <2>2 DEF Fits, Answer, Command
    <2> QED
      BY <1>1, <2>1, <2>2, <2>3, GapsSlaveEnds
  <1>4. CASE SlaveBurnt
    <2>1. /\ Job("slave", Burn) /\ SlaveLib(Done(lib["slave"]))
          /\ Done(lib["slave"]).jobs = <<>> /\ SlaveJobs # <<>> /\ SlaveJobs[1] = Burn
          /\ ~Still /\ sem = 0 /\ ~Busy(net["slave"]) /\ ~Busy(net["master"])
      BY <1>4, SlaveEnds, SlaveJobEnds DEF SlaveBurnt
    <2>2. CASE \E ok \in BOOLEAN : Send("slave", "INFO_RSP", SUCC, ok)
      <3>1. Fits("INFO_RSP", SUCC)
        BY DEF Fits, Answer, Command
      <3> QED
        BY <1>1, <2>1, <2>2, <3>1, GapsSlaveEnds
    <2>3. CASE /\ sn' = [sn EXCEPT !["slave"] = (@ + 1) % SnMod]
               /\ net' = net /\ link' = link /\ faults' = faults
      <3>1. Numbered("slave") /\ Numbered("master") /\ Gap("master") = 0 /\ faults \in Nat
        BY <1>1, <2>1, SidesAre, GapTypes DEF GapsOK, CaughtUp, Burns
      <3>2. SlaveJobs' = <<>> /\ MasterJobs' = MasterJobs
        BY <1>1, <2>1, SlaveLibIs
      <3>3. ~MasterVerifies /\ ~MasterVerifies'
        BY <1>1, <2>1, <3>2, Constants DEF PInv, VerifiedOK, MasterVerifies
      <3>4. ~(Busy(net["slave"]))' /\ ~(Busy(net["master"]))'
        BY <2>1, <2>3 DEF Busy
      <3>5. Gap("master")' = 1 /\ sn'["master"] = sn["master"]
        <4>1. Gap("master") <= 2 * faults + 1
          BY <3>1
        <4>2. /\ Gap("master")' = Gap("master") + 1
              /\ sn'["master"] = sn["master"]
          BY <1>1, <2>3, <4>1, SidesAre, GapGrows
        <4> QED
          BY <3>1, <4>2
      <3>6. Numbered("master")'
        <4>1. ~MaySend("master")'
          BY <3>2 DEF MaySend
        <4>2. Gap("master")' <= 2 * faults' + 1
          BY <2>3, <3>1, <3>5
        <4>3. ~link' => net'["master"] = <<>>
          BY <2>3, <3>1 DEF Numbered
        <4> QED
          BY <3>4, <4>1, <4>2, <4>3 DEF Numbered
      <3>7. Numbered("slave")'
        <4>1. MaySend("slave")' => MaySend("slave")
          BY <1>1, <3>3 DEF MaySend
        <4>2. ~link' => net'["slave"] = <<>>
          BY <2>3, <3>1 DEF Numbered
        <4> QED
          BY <1>1, <2>1, <2>3, <3>1, <3>4, <3>5, <4>1, <4>2, SidesAre, NumberedKept
      <3>8. CaughtUp'
        BY <1>1, <2>1, <3>2, <3>3, <3>4 DEF CaughtUp, SlaveBusy, Burns
      <3> QED
        BY <3>6, <3>7, <3>8, SidesAre DEF GapsOK
    <2> QED
      BY <1>4, <2>2, <2>3 DEF SlaveBurnt
  <1> QED
    BY <1>2, <1>3, <1>4

\* A side ends its update task, and nothing else.
LEMMA GapsStops ==
  ASSUME IInv, GapsOK, NEW d \in Side, lib' = [lib EXCEPT ![d] = Closed],
         net' = net, sn' = sn, last' = last, link' = link, faults' = faults,
         sem' = sem, api' = api, first' = first
  PROVE  GapsOK'
  <1>1. lib'[d].jobs = <<>> /\ lib'[Other(d)] = lib[Other(d)]
    BY SidesAre, NoJobs DEF IInv, TypeOK
  <1>2. CASE d = "master"
    <2>1. MasterJobs' = <<>> /\ SlaveJobs' = SlaveJobs
      BY <1>1, <1>2, SidesAre DEF MasterJobs, SlaveJobs
    <2> QED
      BY <2>1, GapsKept DEF MasterVerifies
  <1>3. CASE d = "slave"
    <2>1. SlaveJobs' = <<>> /\ MasterJobs' = MasterJobs
      BY <1>1, <1>3, SidesAre DEF MasterJobs, SlaveJobs
    <2> QED
      BY <2>1, Constants, GapsKept DEF MasterVerifies
  <1> QED
    BY <1>2, <1>3 DEF Side

\* The link is lost, and comes back.
LEMMA GapsLink ==
  ASSUME IInv, GapsOK, Detach \/ Attach
  PROVE  GapsOK'
  <1>1. /\ TypeOK /\ sn' = sn /\ last' = last /\ lib' = lib /\ sem' = sem
        /\ api' = api /\ Numbered("slave") /\ Numbered("master") /\ CaughtUp
    BY SidesAre DEF Detach, Attach, waitVars, IInv, GapsOK
  <1>2. Gap("master")' = Gap("master")
    BY <1>1, SidesAre DEF Gap, Ahead
  <1>3. (MasterVerifies' <=> MasterVerifies) /\ (Burns' <=> Burns)
    BY <1>1, Constants DEF MasterVerifies, MasterJobs, Burns, SlaveJobs
  <1>4. CASE Detach
    <2>1. /\ net'["slave"] = <<>> /\ net'["master"] = <<>> /\ faults' = faults + 1
      BY <1>4, SidesAre DEF Detach, Fault
    <2>2. ~(Busy(net["slave"]))' /\ ~(Busy(net["master"]))'
      BY <2>1 DEF Busy
    <2>3. Numbered("slave")' /\ Numbered("master")'
      BY <1>1, <2>1, <2>2, SidesAre, NumberedKept
    <2>4. CaughtUp'
      BY <1>1, <1>2, <1>3, <2>2 DEF CaughtUp, SlaveBusy
    <2> QED
      BY <2>3, <2>4, SidesAre DEF GapsOK
  <1>5. CASE Attach
    <2>1. net' = net /\ faults' = faults /\ link'
      BY <1>5 DEF Attach
    <2>2. Numbered("slave")' /\ Numbered("master")'
      BY <1>1, <2>1, SidesAre, NumberedKept DEF Busy, Newest
    <2>3. (SlaveBusy("INFO"))' => SlaveBusy("INFO")
      BY <2>1 DEF SlaveBusy, Busy, Newest
    <2>4. CaughtUp'
      BY <1>1, <1>2, <1>3, <2>3 DEF CaughtUp
    <2> QED
      BY <2>2, <2>4, SidesAre DEF GapsOK
  <1> QED
    BY <1>4, <1>5

LEMMA GapsInit ==
  ASSUME Init
  PROVE  GapsOK
  <1>1. /\ net["slave"] = <<>> /\ net["master"] = <<>> /\ link /\ faults = 0
        /\ MasterJobs = <<>> /\ SlaveJobs = <<>> /\ sem = 0
    BY SidesAre, NoJobs DEF Init, MasterJobs, SlaveJobs
  <1>2. ~Busy(net["slave"]) /\ ~Busy(net["master"])
    BY <1>1, EmptyIsFine
  <1>3. Gap("slave") = 1 /\ Gap("master") = 1
    BY SidesAre DEF Init, Gap, Ahead
  <1>4. Numbered("slave") /\ Numbered("master")
    BY <1>1, <1>2, <1>3 DEF Numbered
  <1>5. CaughtUp
    BY <1>1, <1>2 DEF CaughtUp, MasterVerifies, SlaveBusy, Burns
  <1> QED
    BY <1>4, <1>5, SidesAre DEF GapsOK

LEMMA GapsStep ==
  Prompt /\ Few /\ IInv /\ PInv /\ GInv /\ ~overlap' /\ [Next]_vars => GInv'
  <1> SUFFICES ASSUME Prompt, Few, IInv, PInv, GInv, ~overlap', [Next]_vars
               PROVE  GInv'
    OBVIOUS
  <1>1. ASSUME NEW d \in Side, Restart(d)
        PROVE  GInv'
    BY <1>1 DEF Restart, GInv
  <1>2. CASE restarted /\ restarted' = restarted
    BY <1>2 DEF GInv
  <1>3. CASE GapsOK /\ ~\E d \in Side : Restart(d)
    <2> SUFFICES GapsOK'
      BY DEF GInv
    <2>1. CASE Master
      BY <1>3, <2>1, GapsStays, GapsMaster, GapsMasterReceives DEF Master
    <2>2. CASE Slave /\ ~SlaveTimeout
      BY <1>3, <2>2, GapsSlaveReceives, GapsSlaveWorks DEF Slave
    <2>3. CASE SlaveTimeout
      BY <1>3, <2>3, SidesAre, GapsStops
      DEF SlaveTimeout, SlaveLib, netVars, waitVars, phoneVars
    <2>4. CASE Phone
      BY <1>3, <2>4, GapsOtaCheck, GapsMaster, GapsStays DEF Phone
    <2>5. CASE Detach \/ Attach
      BY <1>3, <2>5, GapsLink
    <2>6. ASSUME NEW d \in Side, TwsOtaStop(d)
          PROVE  GapsOK'
      BY <1>3, <2>6, GapsStops DEF TwsOtaStop, waitVars, phoneVars
    <2>7. CASE UNCHANGED vars
      <3>1. /\ net' = net /\ sn' = sn /\ last' = last /\ link' = link
            /\ faults' = faults /\ lib' = lib /\ sem' = sem /\ api' = api /\ first' = first
        BY <2>7 DEF vars, netVars, waitVars, phoneVars
      <3>2. /\ SlaveJobs' = SlaveJobs /\ (MasterVerifies' <=> MasterVerifies)
        BY <3>1, Constants DEF MasterVerifies, MasterJobs, SlaveJobs
      <3> QED
        BY <1>3, <3>1, <3>2, GapsKept
    <2> QED
      BY <1>3, <2>1, <2>2, <2>3, <2>4, <2>5, <2>6, <2>7 DEF Next, Radio, GInv
  <1>4. restarted' = restarted \/ \E d \in Side : Restart(d)
    <2>1. Master \/ Slave => restarted' = restarted
      BY DEF Master, StartWaits, DataWaits, WritePacket, LastWaits, VerifyWaits, InfoWaits,
             MasterWrote, MasterVerified, MasterBurnt, MasterReceives, Slave,
             SlaveReceives, SlaveWrote, SlaveVerified, SlaveBurnt, SlaveTimeout
    <2>2. Phone => restarted' = restarted
      BY DEF Phone, OtaCheck, TransData, WritePacket, CheckCrc, PhoneLeaves
    <2>3. Radio => restarted' = restarted \/ \E d \in Side : Restart(d)
      BY DEF Radio, Detach, Attach, TwsOtaStop
    <2> QED
      BY <2>1, <2>2, <2>3 DEF Next, vars
  <1> QED
    BY <1>1, <1>2, <1>3, <1>4 DEF GInv

\* When answers are in time, no update begins in the middle of another and no
\* speaker restarts, a packet that is not a repeat is never dropped as one, provided that the numbers do not come
\* round in a run: with the 256 of the code (u8 sync_update_sn), up to 126
\* lost sends and detachments do no harm.
THEOREM FreshPacketIsTaken ==
  ASSUME Prompt, SnMod > 2 * MaxFaults + 2
  PROVE  Spec => []FreshIsTaken
  <1>1. Few
    BY DEF Few
  <1> DEFINE Inv == IInv /\ (overlap \/ (PInv /\ GInv))
  <1>2. Init => Inv
    BY TypeInit, InvInit, GapsInit DEF GInv
  <1>3. Inv /\ [Next]_vars => Inv'
    BY <1>1, TypeStep, InvStep, GapsStep, OverlapStays
  <1>4. Inv => FreshIsTaken
    <2> SUFFICES ASSUME IInv, PInv, GapsOK, NEW d \in Side, net[d] # <<>>,
                        ~Head(net[d]).again
                 PROVE  ~Repeats(d)
      BY DEF GInv, FreshIsTaken
    <2>1. TypeOK /\ net[d] \in Seq(Packet) /\ Shape(net[d]) /\ Numbered(d)
      BY DEF IInv, PInv, TypeOK, QueuesOK, Fine, GapsOK
    <2>2. ~net[d][1].again /\ Head(net[d]) = net[d][1]
      BY <2>1
    <2>3. Len(net[d]) = 1
      <3>1. Len(net[d]) \in {1, 2}
        BY <2>1, QueueLength
      <3> QED
        BY <2>1, <2>2, <3>1 DEF Shape
    <2>4. Busy(net[d]) /\ Newest(net[d]) = Head(net[d])
      BY <2>2, <2>3 DEF Busy, Newest
    <2>5. Head(net[d]).sn = sn[Other(d)] /\ sn[Other(d)] # last[d]
      BY <2>1, <2>4, GapTypes DEF Numbered
    <2> QED
      BY <2>5 DEF Repeats
  <1> QED
    BY <1>2, <1>3, <1>4, PTL DEF Spec

=============================================================================
