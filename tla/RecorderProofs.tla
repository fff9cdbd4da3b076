-------------------------- MODULE RecorderProofs --------------------------
(***************************************************************************)
(* Recorder's safety for all buffer, frame and limit sizes, any number of  *)
(* recordings and any amount of PCM.  Sound is inductive together with the *)
(* types: who may be where (Phases), where the data is (NothingLost), and  *)
(* what an answer to enc_write_file_stop means (Answers).                  *)
(***************************************************************************)
EXTENDS Recorder, TLAPS

-----------------------------------------------------------------------------
(* Every step keeps the types.                                              *)

LEMMA FlagTypesStep ==
  ASSUME TypeOK, Sound, [Next]_vars
  PROVE  FlagTypes'
<1> USE DEF TypeOK, FlagTypes
<1>1. ASSUME TaskFails PROVE FlagTypes'
  BY <1>1 DEF TaskFails, NoFile, hdlVars, encVars, flagVars, taskVars, histVars
<1>2. ASSUME Open PROVE FlagTypes'
  BY <1>2 DEF Open, NewFile
<1>3. ASSUME Start PROVE FlagTypes'
  BY <1>3 DEF Start, encVars, taskVars, sessVars, histVars
<1>4. ASSUME Toggle PROVE FlagTypes'
  BY <1>4 DEF Toggle, encVars, flagVars, taskVars, sessVars, histVars
<1>5. ASSUME Close PROVE FlagTypes'
  BY <1>5 DEF Close, encVars, flagVars, taskVars, sessVars
<1>6. ASSUME CloseInput PROVE FlagTypes'
  BY <1>6 DEF CloseInput, hdlVars, encVars, flagVars, taskVars, sessVars, histVars
<1>7. ASSUME CloseEncoder PROVE FlagTypes'
  BY <1>7 DEF CloseEncoder, hdlVars, flagVars, taskVars, sessVars, histVars
<1>8. ASSUME StopBegin PROVE FlagTypes'
  <2>1. CASE start
    BY <1>8, <2>1 DEF StopBegin, hdlVars, encVars, taskVars, sessVars, histVars
  <2>2. CASE ~start
    BY <1>8, <2>2 DEF StopBegin, hdlVars, encVars, taskVars, sessVars, histVars
  <2> QED BY <2>1, <2>2
<1>9. ASSUME StopAnswered PROVE FlagTypes'
  BY <1>9 DEF StopAnswered, EndOfStop, hdlVars, encVars, taskVars, sessVars
<1>10. ASSUME StopTick PROVE FlagTypes'
  BY <1>10 DEF StopTick, EndOfStop, hdlVars, encVars, taskVars, sessVars
<1>11. ASSUME Handshake PROVE FlagTypes'
  BY <1>11 DEF Handshake, hdlVars, encVars, sessVars, histVars
<1>12. ASSUME Kill PROVE FlagTypes'
  BY <1>12 DEF Kill, hdlVars, encVars, flagVars, sessVars, histVars
<1>13. ASSUME Finish PROVE FlagTypes'
  BY <1>13 DEF Finish, Kept, NoFile, hdlVars, encVars, flagVars, taskVars, histVars
<1>14. ASSUME InputEnter PROVE FlagTypes'
  BY <1>14 DEF InputEnter, encVars, flagVars, taskVars, sessVars, histVars
<1>15. ASSUME InputLeave PROVE FlagTypes'
  BY <1>15 DEF InputLeave, encVars, flagVars, taskVars, sessVars
<1>16. ASSUME EncGet PROVE FlagTypes'
  BY <1>16 DEF EncGet, flagVars, taskVars, sessVars, histVars
<1>17. ASSUME EncOutput PROVE FlagTypes'
  BY <1>17 DEF EncOutput, Resumed, flagVars, taskVars, sessVars
<1>18. ASSUME EncReset PROVE FlagTypes'
  BY <1>18 DEF EncReset, hdlVars, flagVars, sessVars, histVars
<1>19. ASSUME EncPost PROVE FlagTypes'
  BY <1>19 DEF EncPost, hdlVars, flagVars, sessVars, histVars
<1>20. ASSUME Pend PROVE FlagTypes'
  BY <1>20 DEF Pend, hdlVars, encVars, flagVars, sessVars, histVars
<1>21. ASSUME Check PROVE FlagTypes'
  BY <1>21 DEF Check, Bumped, hdlVars, encVars, flagVars, sessVars, histVars
<1>22. ASSUME GetFrame PROVE FlagTypes'
  BY <1>22 DEF GetFrame, encVars, flagVars, sessVars, histVars
<1>23. ASSUME GetStatus PROVE FlagTypes'
  BY <1>23 DEF GetStatus, hdlVars, encVars, flagVars, sessVars, histVars
<1>24. ASSUME GetRest PROVE FlagTypes'
  BY <1>24 DEF GetRest, encVars, flagVars, sessVars, histVars
<1>25. ASSUME Empty PROVE FlagTypes'
  BY <1>25 DEF Empty, hdlVars, encVars, sessVars, histVars
<1>26. ASSUME WriteOk PROVE FlagTypes'
  BY <1>26 DEF WriteOk, hdlVars, encVars, flagVars, sessVars, histVars
<1>27. ASSUME WriteFails PROVE FlagTypes'
  BY <1>27 DEF WriteFails, hdlVars, encVars, flagVars, sessVars, histVars
<1>28. ASSUME WriteError PROVE FlagTypes'
  BY <1>28 DEF WriteError, sessVars, histVars
<1>29. ASSUME WriteDropped PROVE FlagTypes'
  BY <1>29 DEF WriteDropped, hdlVars, encVars, flagVars, sessVars, histVars
<1>30. ASSUME Put PROVE FlagTypes'
  BY <1>30 DEF Put, encVars, flagVars, sessVars, histVars
<1>31. ASSUME HeadDone PROVE FlagTypes'
  BY <1>31 DEF HeadDone, encVars, flagVars, sessVars, histVars
<1>32. ASSUME ParkAnswer PROVE FlagTypes'
  BY <1>32 DEF ParkAnswer, hdlVars, encVars, sessVars, histVars
<1>33. ASSUME ParkClear PROVE FlagTypes'
  BY <1>33 DEF ParkClear, hdlVars, encVars, taskVars, sessVars, histVars
<1>34. ASSUME UNCHANGED vars PROVE FlagTypes'
  BY <1>34 DEF vars, sessVars, hdlVars, encVars, flagVars, taskVars, histVars
<1>35. ASSUME RestOverruns PROVE FlagTypes'
  BY <1>35 DEF RestOverruns, hdlVars, encVars, flagVars, sessVars, histVars
<1> QED
  BY <1>1, <1>2, <1>3, <1>4, <1>5, <1>6, <1>7, <1>8, <1>9, <1>10, <1>11, <1>12, <1>13,
     <1>14, <1>15, <1>16, <1>17, <1>18, <1>19, <1>20, <1>21, <1>22, <1>23, <1>24,
     <1>25, <1>26, <1>27, <1>28, <1>29, <1>30, <1>31, <1>32, <1>33, <1>34, <1>35 DEF Next,
     Owner, OwnerCloses, Input, Encode, Wake, Writer

LEMMA StateTypesStep ==
  ASSUME TypeOK, Sound, [Next]_vars
  PROVE  StateTypes'
<1> USE SizeAssumption DEF TypeOK, StateTypes, Sound, Phases, OwnerStates,
   WriterStates
<1>1. ASSUME TaskFails PROVE StateTypes'
  BY <1>1 DEF TaskFails, NoFile, hdlVars, encVars, flagVars, taskVars, histVars
<1>2. ASSUME Open PROVE StateTypes'
  BY <1>2 DEF Open, NewFile
<1>3. ASSUME Start PROVE StateTypes'
  BY <1>3 DEF Start, encVars, taskVars, sessVars, histVars
<1>4. ASSUME Toggle PROVE StateTypes'
  BY <1>4 DEF Toggle, encVars, flagVars, taskVars, sessVars, histVars
<1>5. ASSUME Close PROVE StateTypes'
  BY <1>5 DEF Close, encVars, flagVars, taskVars, sessVars
<1>6. ASSUME CloseInput PROVE StateTypes'
  BY <1>6 DEF CloseInput, hdlVars, encVars, flagVars, taskVars, sessVars, histVars
<1>7. ASSUME CloseEncoder PROVE StateTypes'
  BY <1>7 DEF CloseEncoder, hdlVars, flagVars, taskVars, sessVars, histVars
<1>8. ASSUME StopBegin PROVE StateTypes'
  <2>1. CASE start
    BY <1>8, <2>1 DEF StopBegin, hdlVars, encVars, taskVars, sessVars, histVars
  <2>2. CASE ~start
    BY <1>8, <2>2 DEF StopBegin, hdlVars, encVars, taskVars, sessVars, histVars
  <2> QED BY <2>1, <2>2
<1>9. ASSUME StopAnswered PROVE StateTypes'
  BY <1>9 DEF StopAnswered, EndOfStop, hdlVars, encVars, taskVars, sessVars
<1>10. ASSUME StopTick PROVE StateTypes'
  <2>1. CASE ticks + 1 < StopTicks
    BY <1>10, <2>1 DEF StopTick, EndOfStop, hdlVars, encVars, taskVars, sessVars
  <2>2. CASE ~(ticks + 1 < StopTicks)
    BY <1>10, <2>2 DEF StopTick, EndOfStop, hdlVars, encVars, taskVars, sessVars
  <2> QED BY <2>1, <2>2
<1>11. ASSUME Handshake PROVE StateTypes'
  BY <1>11 DEF Handshake, hdlVars, encVars, sessVars, histVars
<1>12. ASSUME Kill PROVE StateTypes'
  BY <1>12 DEF Kill, hdlVars, encVars, flagVars, sessVars, histVars
<1>13. ASSUME Finish PROVE StateTypes'
  BY <1>13 DEF Finish, Kept, NoFile, hdlVars, encVars, flagVars, taskVars, histVars
<1>14. ASSUME InputEnter PROVE StateTypes'
  BY <1>14 DEF InputEnter, encVars, flagVars, taskVars, sessVars, histVars
<1>15. ASSUME InputLeave PROVE StateTypes'
  BY <1>15 DEF InputLeave, encVars, flagVars, taskVars, sessVars
<1>16. ASSUME EncGet PROVE StateTypes'
  BY <1>16 DEF EncGet, flagVars, taskVars, sessVars, histVars
<1>17. ASSUME EncOutput PROVE StateTypes'
  <2>1. CASE buf < BufLen
    BY <1>17, <2>1 DEF EncOutput, Resumed, flagVars, taskVars, sessVars
  <2>2. CASE ~(buf < BufLen)
    BY <1>17, <2>2 DEF EncOutput, Resumed, flagVars, taskVars, sessVars
  <2> QED BY <2>1, <2>2
<1>18. ASSUME EncReset PROVE StateTypes'
  BY <1>18 DEF EncReset, hdlVars, flagVars, sessVars, histVars
<1>19. ASSUME EncPost PROVE StateTypes'
  BY <1>19 DEF EncPost, hdlVars, flagVars, sessVars, histVars
<1>20. ASSUME Pend PROVE StateTypes'
  BY <1>20 DEF Pend, hdlVars, encVars, flagVars, sessVars, histVars
<1>21. ASSUME Check PROVE StateTypes'
  BY <1>21 DEF Check, Bumped, hdlVars, encVars, flagVars, sessVars, histVars
<1>22. ASSUME GetFrame PROVE StateTypes'
  BY <1>22 DEF GetFrame, encVars, flagVars, sessVars, histVars
<1>23. ASSUME GetStatus PROVE StateTypes'
  BY <1>23 DEF GetStatus, hdlVars, encVars, flagVars, sessVars, histVars
<1>24. ASSUME GetRest PROVE StateTypes'
  BY <1>24 DEF GetRest, encVars, flagVars, sessVars, histVars
<1>25. ASSUME Empty PROVE StateTypes'
  BY <1>25 DEF Empty, hdlVars, encVars, sessVars, histVars
<1>26. ASSUME WriteOk PROVE StateTypes'
  BY <1>26 DEF WriteOk, hdlVars, encVars, flagVars, sessVars, histVars
<1>27. ASSUME WriteFails PROVE StateTypes'
  BY <1>27 DEF WriteFails, hdlVars, encVars, flagVars, sessVars, histVars
<1>28. ASSUME WriteError PROVE StateTypes'
  BY <1>28 DEF WriteError, sessVars, histVars
<1>29. ASSUME WriteDropped PROVE StateTypes'
  BY <1>29 DEF WriteDropped, hdlVars, encVars, flagVars, sessVars, histVars
<1>30. ASSUME Put PROVE StateTypes'
  BY <1>30 DEF Put, encVars, flagVars, sessVars, histVars
<1>31. ASSUME HeadDone PROVE StateTypes'
  BY <1>31 DEF HeadDone, encVars, flagVars, sessVars, histVars
<1>32. ASSUME ParkAnswer PROVE StateTypes'
  BY <1>32 DEF ParkAnswer, hdlVars, encVars, sessVars, histVars
<1>33. ASSUME ParkClear PROVE StateTypes'
  BY <1>33 DEF ParkClear, hdlVars, encVars, taskVars, sessVars, histVars
<1>34. ASSUME UNCHANGED vars PROVE StateTypes'
  BY <1>34 DEF vars, sessVars, hdlVars, encVars, flagVars, taskVars, histVars
<1>35. ASSUME RestOverruns PROVE StateTypes'
  BY <1>35 DEF RestOverruns, hdlVars, encVars, flagVars, sessVars, histVars
<1> QED
  BY <1>1, <1>2, <1>3, <1>4, <1>5, <1>6, <1>7, <1>8, <1>9, <1>10, <1>11, <1>12, <1>13,
     <1>14, <1>15, <1>16, <1>17, <1>18, <1>19, <1>20, <1>21, <1>22, <1>23, <1>24,
     <1>25, <1>26, <1>27, <1>28, <1>29, <1>30, <1>31, <1>32, <1>33, <1>34, <1>35 DEF Next,
     Owner, OwnerCloses, Input, Encode, Wake, Writer

LEMMA DataTypesStep ==
  ASSUME TypeOK, Sound, [Next]_vars
  PROVE  DataTypes'
<1> USE SizeAssumption DEF TypeOK, DataTypes, Sound, Phases
<1>1. ASSUME TaskFails PROVE DataTypes'
  BY <1>1 DEF TaskFails, NoFile, hdlVars, encVars, flagVars, taskVars, histVars
<1>2. ASSUME Open PROVE DataTypes'
  BY <1>2 DEF Open, NewFile
<1>3. ASSUME Start PROVE DataTypes'
  BY <1>3 DEF Start, encVars, taskVars, sessVars, histVars
<1>4. ASSUME Toggle PROVE DataTypes'
  BY <1>4 DEF Toggle, encVars, flagVars, taskVars, sessVars, histVars
<1>5. ASSUME Close PROVE DataTypes'
  BY <1>5 DEF Close, encVars, flagVars, taskVars, sessVars
<1>6. ASSUME CloseInput PROVE DataTypes'
  BY <1>6 DEF CloseInput, hdlVars, encVars, flagVars, taskVars, sessVars, histVars
<1>7. ASSUME CloseEncoder PROVE DataTypes'
  BY <1>7 DEF CloseEncoder, hdlVars, flagVars, taskVars, sessVars, histVars
<1>8. ASSUME StopBegin PROVE DataTypes'
  BY <1>8 DEF StopBegin, hdlVars, encVars, taskVars, sessVars, histVars
<1>9. ASSUME StopAnswered PROVE DataTypes'
  BY <1>9 DEF StopAnswered, EndOfStop, hdlVars, encVars, taskVars, sessVars
<1>10. ASSUME StopTick PROVE DataTypes'
  BY <1>10 DEF StopTick, EndOfStop, hdlVars, encVars, taskVars, sessVars
<1>11. ASSUME Handshake PROVE DataTypes'
  BY <1>11 DEF Handshake, hdlVars, encVars, sessVars, histVars
<1>12. ASSUME Kill PROVE DataTypes'
  BY <1>12 DEF Kill, hdlVars, encVars, flagVars, sessVars, histVars
<1>13. ASSUME Finish PROVE DataTypes'
  BY <1>13 DEF Finish, Kept, NoFile, hdlVars, encVars, flagVars, taskVars, histVars
<1>14. ASSUME InputEnter PROVE DataTypes'
  BY <1>14 DEF InputEnter, encVars, flagVars, taskVars, sessVars, histVars
<1>15. ASSUME InputLeave PROVE DataTypes'
  BY <1>15 DEF InputLeave, encVars, flagVars, taskVars, sessVars
<1>16. ASSUME EncGet PROVE DataTypes'
  BY <1>16 DEF EncGet, flagVars, taskVars, sessVars, histVars
<1>17. ASSUME EncOutput PROVE DataTypes'
  <2>1. CASE buf < BufLen
    BY <1>17, <2>1 DEF EncOutput, Resumed, flagVars, taskVars, sessVars
  <2>2. CASE ~(buf < BufLen)
    BY <1>17, <2>2 DEF EncOutput, Resumed, flagVars, taskVars, sessVars
  <2> QED BY <2>1, <2>2
<1>18. ASSUME EncReset PROVE DataTypes'
  BY <1>18 DEF EncReset, hdlVars, flagVars, sessVars, histVars
<1>19. ASSUME EncPost PROVE DataTypes'
  BY <1>19 DEF EncPost, hdlVars, flagVars, sessVars, histVars
<1>20. ASSUME Pend PROVE DataTypes'
  BY <1>20 DEF Pend, hdlVars, encVars, flagVars, sessVars, histVars
<1>21. ASSUME Check PROVE DataTypes'
  BY <1>21 DEF Check, Bumped, hdlVars, encVars, flagVars, sessVars, histVars
<1>22. ASSUME GetFrame PROVE DataTypes'
  BY <1>22 DEF GetFrame, encVars, flagVars, sessVars, histVars
<1>23. ASSUME GetStatus PROVE DataTypes'
  BY <1>23 DEF GetStatus, hdlVars, encVars, flagVars, sessVars, histVars
<1>24. ASSUME GetRest PROVE DataTypes'
  BY <1>24 DEF GetRest, encVars, flagVars, sessVars, histVars
<1>25. ASSUME Empty PROVE DataTypes'
  BY <1>25 DEF Empty, hdlVars, encVars, sessVars, histVars
<1>26. ASSUME WriteOk PROVE DataTypes'
  BY <1>26 DEF WriteOk, hdlVars, encVars, flagVars, sessVars, histVars
<1>27. ASSUME WriteFails PROVE DataTypes'
  BY <1>27 DEF WriteFails, hdlVars, encVars, flagVars, sessVars, histVars
<1>28. ASSUME WriteError PROVE DataTypes'
  BY <1>28 DEF WriteError, sessVars, histVars
<1>29. ASSUME WriteDropped PROVE DataTypes'
  BY <1>29 DEF WriteDropped, hdlVars, encVars, flagVars, sessVars, histVars
<1>30. ASSUME Put PROVE DataTypes'
  BY <1>30 DEF Put, encVars, flagVars, sessVars, histVars
<1>31. ASSUME HeadDone PROVE DataTypes'
  BY <1>31 DEF HeadDone, encVars, flagVars, sessVars, histVars
<1>32. ASSUME ParkAnswer PROVE DataTypes'
  BY <1>32 DEF ParkAnswer, hdlVars, encVars, sessVars, histVars
<1>33. ASSUME ParkClear PROVE DataTypes'
  BY <1>33 DEF ParkClear, hdlVars, encVars, taskVars, sessVars, histVars
<1>34. ASSUME UNCHANGED vars PROVE DataTypes'
  BY <1>34 DEF vars, sessVars, hdlVars, encVars, flagVars, taskVars, histVars
<1>35. ASSUME RestOverruns PROVE DataTypes'
  BY <1>35 DEF RestOverruns, hdlVars, encVars, flagVars, sessVars, histVars
<1> QED
  BY <1>1, <1>2, <1>3, <1>4, <1>5, <1>6, <1>7, <1>8, <1>9, <1>10, <1>11, <1>12, <1>13,
     <1>14, <1>15, <1>16, <1>17, <1>18, <1>19, <1>20, <1>21, <1>22, <1>23, <1>24,
     <1>25, <1>26, <1>27, <1>28, <1>29, <1>30, <1>31, <1>32, <1>33, <1>34, <1>35 DEF Next,
     Owner, OwnerCloses, Input, Encode, Wake, Writer

-----------------------------------------------------------------------------
\* Every step keeps the tasks where the owner expects them.
LEMMA PhasesStep ==
  ASSUME TypeOK, Sound, [Next]_vars
  PROVE  Phases'
<1> USE SizeAssumption DEF TypeOK, FlagTypes, StateTypes, DataTypes, Sound, Phases,
   Answers, OwnerStates, WriterStates
<1>1. ASSUME TaskFails PROVE Phases'
  BY <1>1 DEF TaskFails, NoFile, hdlVars, encVars, flagVars, taskVars, histVars
<1>2. ASSUME Open PROVE Phases'
  BY <1>2 DEF Open, NewFile
<1>3. ASSUME Start PROVE Phases'
  <2>1. /\ owner = "open" /\ owner' = "running" /\ status' = 1
        /\ UNCHANGED <<ticks, given, enc_err, input_busy, mutex, enc, init_ok, wait_idle,
                       wait_stop, write_err, sem, writer, frame, file, promised, acked>>
    BY <1>3 DEF Start, encVars, taskVars, sessVars, histVars
  <2> QED BY <2>1
<1>4. ASSUME Toggle PROVE Phases'
  BY <1>4 DEF Toggle, encVars, flagVars, taskVars, sessVars, histVars
<1>5. ASSUME Close PROVE Phases'
  BY <1>5 DEF Close, encVars, flagVars, taskVars, sessVars
<1>6. ASSUME CloseInput PROVE Phases'
  BY <1>6 DEF CloseInput, hdlVars, encVars, flagVars, taskVars, sessVars, histVars
<1>7. ASSUME CloseEncoder PROVE Phases'
  BY <1>7 DEF CloseEncoder, hdlVars, flagVars, taskVars, sessVars, histVars
<1>8. ASSUME StopBegin PROVE Phases'
  <2>1. CASE start
    BY <1>8, <2>1 DEF StopBegin, hdlVars, encVars, taskVars, sessVars, histVars
  <2>2. CASE ~start
    BY <1>8, <2>2 DEF StopBegin, hdlVars, encVars, taskVars, sessVars, histVars
  <2> QED BY <2>1, <2>2
<1>9. ASSUME StopAnswered PROVE Phases'
  BY <1>9 DEF StopAnswered, EndOfStop, hdlVars, encVars, taskVars, sessVars
<1>10. ASSUME StopTick PROVE Phases'
  BY <1>10 DEF StopTick, EndOfStop, hdlVars, encVars, taskVars, sessVars
<1>11. ASSUME Handshake PROVE Phases'
  BY <1>11 DEF Handshake, hdlVars, encVars, sessVars, histVars
<1>12. ASSUME Kill PROVE Phases'
  BY <1>12 DEF Kill, hdlVars, encVars, flagVars, sessVars, histVars
<1>13. ASSUME Finish PROVE Phases'
  BY <1>13 DEF Finish, Kept, NoFile, hdlVars, encVars, flagVars, taskVars, histVars
<1>14. ASSUME InputEnter PROVE Phases'
  BY <1>14 DEF InputEnter, encVars, flagVars, taskVars, sessVars, histVars
<1>15. ASSUME InputLeave PROVE Phases'
  BY <1>15 DEF InputLeave, encVars, flagVars, taskVars, sessVars
<1>16. ASSUME EncGet PROVE Phases'
  BY <1>16 DEF EncGet, flagVars, taskVars, sessVars, histVars
<1>17. ASSUME EncOutput PROVE Phases'
  BY <1>17 DEF EncOutput, Resumed, flagVars, taskVars, sessVars
<1>18. ASSUME EncReset PROVE Phases'
  BY <1>18 DEF EncReset, hdlVars, flagVars, sessVars, histVars
<1>19. ASSUME EncPost PROVE Phases'
  BY <1>19 DEF EncPost, hdlVars, flagVars, sessVars, histVars
<1>20. ASSUME Pend PROVE Phases'
  BY <1>20 DEF Pend, hdlVars, encVars, flagVars, sessVars, histVars
<1>21. ASSUME Check PROVE Phases'
  BY <1>21 DEF Check, Bumped, hdlVars, encVars, flagVars, sessVars, histVars
<1>22. ASSUME GetFrame PROVE Phases'
  BY <1>22 DEF GetFrame, encVars, flagVars, sessVars, histVars
<1>23. ASSUME GetStatus PROVE Phases'
  BY <1>23 DEF GetStatus, hdlVars, encVars, flagVars, sessVars, histVars
<1>24. ASSUME GetRest PROVE Phases'
  BY <1>24 DEF GetRest, encVars, flagVars, sessVars, histVars
<1>25. ASSUME Empty PROVE Phases'
  BY <1>25 DEF Empty, hdlVars, encVars, sessVars, histVars
<1>26. ASSUME WriteOk PROVE Phases'
  BY <1>26 DEF WriteOk, hdlVars, encVars, flagVars, sessVars, histVars
<1>27. ASSUME WriteFails PROVE Phases'
  BY <1>27 DEF WriteFails, hdlVars, encVars, flagVars, sessVars, histVars
<1>28. ASSUME WriteError PROVE Phases'
  BY <1>28 DEF WriteError, sessVars, histVars
<1>29. ASSUME WriteDropped PROVE Phases'
  BY <1>29 DEF WriteDropped, hdlVars, encVars, flagVars, sessVars, histVars
<1>30. ASSUME Put PROVE Phases'
  BY <1>30 DEF Put, encVars, flagVars, sessVars, histVars
<1>31. ASSUME HeadDone PROVE Phases'
  BY <1>31 DEF HeadDone, encVars, flagVars, sessVars, histVars
<1>32. ASSUME ParkAnswer PROVE Phases'
  BY <1>32 DEF ParkAnswer, hdlVars, encVars, sessVars, histVars
<1>33. ASSUME ParkClear PROVE Phases'
  BY <1>33 DEF ParkClear, hdlVars, encVars, taskVars, sessVars, histVars
<1>34. ASSUME UNCHANGED vars PROVE Phases'
  BY <1>34 DEF vars, sessVars, hdlVars, encVars, flagVars, taskVars, histVars
<1>35. ASSUME RestOverruns PROVE Phases'
  BY <1>35 DEF RestOverruns, hdlVars, encVars, flagVars, sessVars, histVars
<1> QED
  BY <1>1, <1>2, <1>3, <1>4, <1>5, <1>6, <1>7, <1>8, <1>9, <1>10, <1>11, <1>12, <1>13,
     <1>14, <1>15, <1>16, <1>17, <1>18, <1>19, <1>20, <1>21, <1>22, <1>23, <1>24,
     <1>25, <1>26, <1>27, <1>28, <1>29, <1>30, <1>31, <1>32, <1>33, <1>34, <1>35 DEF Next,
     Owner, OwnerCloses, Input, Encode, Wake, Writer

\* Every step keeps count of the data.
LEMMA DataStep ==
  ASSUME TypeOK, Sound, [Next]_vars
  PROVE  NothingLost'
<1> USE SizeAssumption DEF TypeOK, DataTypes, FlagTypes, Sound, Phases, NothingLost
<1>1. ASSUME TaskFails PROVE NothingLost'
  BY <1>1 DEF TaskFails, NoFile, hdlVars, encVars, flagVars, taskVars, histVars
<1>2. ASSUME Open PROVE NothingLost'
  BY <1>2 DEF Open, NewFile
<1>3. ASSUME Start PROVE NothingLost'
  BY <1>3 DEF Start, encVars, taskVars, sessVars, histVars
<1>4. ASSUME Toggle PROVE NothingLost'
  BY <1>4 DEF Toggle, encVars, flagVars, taskVars, sessVars, histVars
<1>5. ASSUME Close PROVE NothingLost'
  BY <1>5 DEF Close, encVars, flagVars, taskVars, sessVars
<1>6. ASSUME CloseInput PROVE NothingLost'
  BY <1>6 DEF CloseInput, hdlVars, encVars, flagVars, taskVars, sessVars, histVars
<1>7. ASSUME CloseEncoder PROVE NothingLost'
  BY <1>7 DEF CloseEncoder, hdlVars, flagVars, taskVars, sessVars, histVars
<1>8. ASSUME StopBegin PROVE NothingLost'
  BY <1>8 DEF StopBegin, hdlVars, encVars, taskVars, sessVars, histVars
<1>9. ASSUME StopAnswered PROVE NothingLost'
  BY <1>9 DEF StopAnswered, EndOfStop, hdlVars, encVars, taskVars, sessVars
<1>10. ASSUME StopTick PROVE NothingLost'
  BY <1>10 DEF StopTick, EndOfStop, hdlVars, encVars, taskVars, sessVars
<1>11. ASSUME Handshake PROVE NothingLost'
  BY <1>11 DEF Handshake, hdlVars, encVars, sessVars, histVars
<1>12. ASSUME Kill PROVE NothingLost'
  BY <1>12 DEF Kill, hdlVars, encVars, flagVars, sessVars, histVars
<1>13. ASSUME Finish PROVE NothingLost'
  BY <1>13 DEF Finish, Kept, NoFile, hdlVars, encVars, flagVars, taskVars, histVars
<1>14. ASSUME InputEnter PROVE NothingLost'
  BY <1>14 DEF InputEnter, encVars, flagVars, taskVars, sessVars, histVars
<1>15. ASSUME InputLeave PROVE NothingLost'
  BY <1>15 DEF InputLeave, encVars, flagVars, taskVars, sessVars
<1>16. ASSUME EncGet PROVE NothingLost'
  BY <1>16 DEF EncGet, flagVars, taskVars, sessVars, histVars
<1>17. ASSUME EncOutput PROVE NothingLost'
  <2>1. CASE buf < BufLen
    BY <1>17, <2>1 DEF EncOutput, Resumed, flagVars, taskVars, sessVars
  <2>2. CASE ~(buf < BufLen)
    BY <1>17, <2>2 DEF EncOutput, Resumed, flagVars, taskVars, sessVars
  <2> QED BY <2>1, <2>2
<1>18. ASSUME EncReset PROVE NothingLost'
  BY <1>18 DEF EncReset, hdlVars, flagVars, sessVars, histVars
<1>19. ASSUME EncPost PROVE NothingLost'
  BY <1>19 DEF EncPost, hdlVars, flagVars, sessVars, histVars
<1>20. ASSUME Pend PROVE NothingLost'
  BY <1>20 DEF Pend, hdlVars, encVars, flagVars, sessVars, histVars
<1>21. ASSUME Check PROVE NothingLost'
  BY <1>21 DEF Check, Bumped, hdlVars, encVars, flagVars, sessVars, histVars
<1>22. ASSUME GetFrame PROVE NothingLost'
  <2>1. CASE buf >= FrameLen
    BY <1>22, <2>1 DEF GetFrame, encVars, flagVars, sessVars, histVars
  <2>2. CASE ~(buf >= FrameLen)
    BY <1>22, <2>2 DEF GetFrame, encVars, flagVars, sessVars, histVars
  <2> QED BY <2>1, <2>2
<1>23. ASSUME GetStatus PROVE NothingLost'
  BY <1>23 DEF GetStatus, hdlVars, encVars, flagVars, sessVars, histVars
<1>24. ASSUME GetRest PROVE NothingLost'
  BY <1>24 DEF GetRest, encVars, flagVars, sessVars, histVars
<1>25. ASSUME Empty PROVE NothingLost'
  BY <1>25 DEF Empty, hdlVars, encVars, sessVars, histVars
<1>26. ASSUME WriteOk PROVE NothingLost'
  BY <1>26 DEF WriteOk, hdlVars, encVars, flagVars, sessVars, histVars
<1>27. ASSUME WriteFails PROVE NothingLost'
  BY <1>27 DEF WriteFails, hdlVars, encVars, flagVars, sessVars, histVars
<1>28. ASSUME WriteError PROVE NothingLost'
  BY <1>28 DEF WriteError, sessVars, histVars
<1>29. ASSUME WriteDropped PROVE NothingLost'
  BY <1>29 DEF WriteDropped, hdlVars, encVars, flagVars, sessVars, histVars
<1>30. ASSUME Put PROVE NothingLost'
  BY <1>30 DEF Put, encVars, flagVars, sessVars, histVars
<1>31. ASSUME HeadDone PROVE NothingLost'
  BY <1>31 DEF HeadDone, encVars, flagVars, sessVars, histVars
<1>32. ASSUME ParkAnswer PROVE NothingLost'
  BY <1>32 DEF ParkAnswer, hdlVars, encVars, sessVars, histVars
<1>33. ASSUME ParkClear PROVE NothingLost'
  BY <1>33 DEF ParkClear, hdlVars, encVars, taskVars, sessVars, histVars
<1>34. ASSUME UNCHANGED vars PROVE NothingLost'
  BY <1>34 DEF vars, sessVars, hdlVars, encVars, flagVars, taskVars, histVars
<1>35. ASSUME RestOverruns PROVE NothingLost'
  BY <1>35 DEF RestOverruns, hdlVars, encVars, flagVars, sessVars, histVars
<1> QED
  BY <1>1, <1>2, <1>3, <1>4, <1>5, <1>6, <1>7, <1>8, <1>9, <1>10, <1>11, <1>12, <1>13,
     <1>14, <1>15, <1>16, <1>17, <1>18, <1>19, <1>20, <1>21, <1>22, <1>23, <1>24,
     <1>25, <1>26, <1>27, <1>28, <1>29, <1>30, <1>31, <1>32, <1>33, <1>34, <1>35 DEF Next,
     Owner, OwnerCloses, Input, Encode, Wake, Writer

\* Every step keeps the meaning of an answer.
LEMMA AnswersStep ==
  ASSUME TypeOK, Sound, [Next]_vars
  PROVE  Answers'
<1> USE DEF TypeOK, FlagTypes, StateTypes, DataTypes, Sound, Phases, NothingLost,
   Answers, OwnerStates
<1>1. ASSUME TaskFails PROVE Answers'
  BY <1>1 DEF TaskFails, NoFile, hdlVars, encVars, flagVars, taskVars, histVars
<1>2. ASSUME Open PROVE Answers'
  BY <1>2 DEF Open, NewFile
<1>3. ASSUME Start PROVE Answers'
  <2>1. /\ owner = "open" /\ owner' = "running" /\ status' = 1
        /\ UNCHANGED <<ticks, given, enc_err, input_busy, mutex, enc, init_ok, wait_idle,
                       wait_stop, write_err, sem, writer, frame, file, promised, acked>>
    BY <1>3 DEF Start, encVars, taskVars, sessVars, histVars
  <2> QED BY <2>1
<1>4. ASSUME Toggle PROVE Answers'
  BY <1>4 DEF Toggle, encVars, flagVars, taskVars, sessVars, histVars
<1>5. ASSUME Close PROVE Answers'
  BY <1>5 DEF Close, encVars, flagVars, taskVars, sessVars
<1>6. ASSUME CloseInput PROVE Answers'
  BY <1>6 DEF CloseInput, hdlVars, encVars, flagVars, taskVars, sessVars, histVars
<1>7. ASSUME CloseEncoder PROVE Answers'
  BY <1>7 DEF CloseEncoder, hdlVars, flagVars, taskVars, sessVars, histVars
<1>8. ASSUME StopBegin PROVE Answers'
  <2>1. CASE start
    BY <1>8, <2>1 DEF StopBegin, hdlVars, encVars, taskVars, sessVars, histVars
  <2>2. CASE ~start
    BY <1>8, <2>2 DEF StopBegin, hdlVars, encVars, taskVars, sessVars, histVars
  <2> QED BY <2>1, <2>2
<1>9. ASSUME StopAnswered PROVE Answers'
  BY <1>9 DEF StopAnswered, EndOfStop, hdlVars, encVars, taskVars, sessVars
<1>10. ASSUME StopTick PROVE Answers'
  BY <1>10 DEF StopTick, EndOfStop, hdlVars, encVars, taskVars, sessVars
<1>11. ASSUME Handshake PROVE Answers'
  BY <1>11 DEF Handshake, hdlVars, encVars, sessVars, histVars
<1>12. ASSUME Kill PROVE Answers'
  BY <1>12 DEF Kill, hdlVars, encVars, flagVars, sessVars, histVars
<1>13. ASSUME Finish PROVE Answers'
  BY <1>13 DEF Finish, Kept, NoFile, hdlVars, encVars, flagVars, taskVars, histVars
<1>14. ASSUME InputEnter PROVE Answers'
  BY <1>14 DEF InputEnter, encVars, flagVars, taskVars, sessVars, histVars
<1>15. ASSUME InputLeave PROVE Answers'
  BY <1>15 DEF InputLeave, encVars, flagVars, taskVars, sessVars
<1>16. ASSUME EncGet PROVE Answers'
  BY <1>16 DEF EncGet, flagVars, taskVars, sessVars, histVars
<1>17. ASSUME EncOutput PROVE Answers'
  BY <1>17 DEF EncOutput, Resumed, flagVars, taskVars, sessVars
<1>18. ASSUME EncReset PROVE Answers'
  BY <1>18 DEF EncReset, hdlVars, flagVars, sessVars, histVars
<1>19. ASSUME EncPost PROVE Answers'
  BY <1>19 DEF EncPost, hdlVars, flagVars, sessVars, histVars
<1>20. ASSUME Pend PROVE Answers'
  BY <1>20 DEF Pend, hdlVars, encVars, flagVars, sessVars, histVars
<1>21. ASSUME Check PROVE Answers'
  BY <1>21 DEF Check, Bumped, hdlVars, encVars, flagVars, sessVars, histVars
<1>22. ASSUME GetFrame PROVE Answers'
  BY <1>22 DEF GetFrame, encVars, flagVars, sessVars, histVars
<1>23. ASSUME GetStatus PROVE Answers'
  BY <1>23 DEF GetStatus, hdlVars, encVars, flagVars, sessVars, histVars
<1>24. ASSUME GetRest PROVE Answers'
  BY <1>24 DEF GetRest, encVars, flagVars, sessVars, histVars
<1>25. ASSUME Empty PROVE Answers'
  BY <1>25 DEF Empty, hdlVars, encVars, sessVars, histVars
<1>26. ASSUME WriteOk PROVE Answers'
  BY <1>26 DEF WriteOk, hdlVars, encVars, flagVars, sessVars, histVars
<1>27. ASSUME WriteFails PROVE Answers'
  BY <1>27 DEF WriteFails, hdlVars, encVars, flagVars, sessVars, histVars
<1>28. ASSUME WriteError PROVE Answers'
  BY <1>28 DEF WriteError, sessVars, histVars
<1>29. ASSUME WriteDropped PROVE Answers'
  BY <1>29 DEF WriteDropped, hdlVars, encVars, flagVars, sessVars, histVars
<1>30. ASSUME Put PROVE Answers'
  BY <1>30 DEF Put, encVars, flagVars, sessVars, histVars
<1>31. ASSUME HeadDone PROVE Answers'
  BY <1>31 DEF HeadDone, encVars, flagVars, sessVars, histVars
<1>32. ASSUME ParkAnswer PROVE Answers'
  BY <1>32 DEF ParkAnswer, hdlVars, encVars, sessVars, histVars
<1>33. ASSUME ParkClear PROVE Answers'
  BY <1>33 DEF ParkClear, hdlVars, encVars, taskVars, sessVars, histVars
<1>34. ASSUME UNCHANGED vars PROVE Answers'
  BY <1>34 DEF vars, sessVars, hdlVars, encVars, flagVars, taskVars, histVars
<1>35. ASSUME RestOverruns PROVE Answers'
  BY <1>35 DEF RestOverruns, hdlVars, encVars, flagVars, sessVars, histVars
<1> QED
  BY <1>1, <1>2, <1>3, <1>4, <1>5, <1>6, <1>7, <1>8, <1>9, <1>10, <1>11, <1>12, <1>13,
     <1>14, <1>15, <1>16, <1>17, <1>18, <1>19, <1>20, <1>21, <1>22, <1>23, <1>24,
     <1>25, <1>26, <1>27, <1>28, <1>29, <1>30, <1>31, <1>32, <1>33, <1>34, <1>35 DEF Next,
     Owner, OwnerCloses, Input, Encode, Wake, Writer

-----------------------------------------------------------------------------
\* The types and the inductive invariant hold in every reachable state.
THEOREM SoundAlways == Spec => [](TypeOK /\ Sound)
<1>1. Init => TypeOK /\ Sound
  <2> SUFFICES ASSUME Init PROVE TypeOK /\ Sound
    OBVIOUS
  <2>1. FlagTypes
    BY DEF Init, FlagTypes
  <2>2. StateTypes /\ DataTypes
    BY SizeAssumption DEF Init, StateTypes, DataTypes, OwnerStates, WriterStates, NoFile
  <2>3. Phases
    BY DEF Init, Phases
  <2>4. NothingLost /\ Answers
    BY DEF Init, NothingLost, Answers
  <2> QED BY <2>1, <2>2, <2>3, <2>4 DEF TypeOK, Sound
<1>2. TypeOK /\ Sound /\ [Next]_vars => (TypeOK /\ Sound)'
  BY FlagTypesStep, StateTypesStep, DataTypesStep, PhasesStep, DataStep, AnswersStep
  DEF TypeOK, Sound
<1> QED BY <1>1, <1>2, PTL DEF Spec

\* The types of the recorder's state.
THEOREM TypeCorrect == Spec => []TypeOK
<1> QED BY SoundAlways, PTL

\* What the encoder has output is in the file, in hand or in the buffer until a
\* write fails or the frame buffer is overrun.
THEOREM DataKept == Spec => []NothingLost
<1>1. Sound => NothingLost BY DEF Sound
<1> QED BY <1>1, SoundAlways, PTL

\* An answered enc_write_file_stop means that the file has what was promised.
THEOREM StopIsComplete == Spec => []AnsweredStopIsComplete
<1>1. Sound => AnsweredStopIsComplete BY DEF Sound, Answers, AnsweredStopIsComplete
<1> QED BY <1>1, SoundAlways, PTL

\* The header update has its encoder.
THEOREM HeaderSafe == Spec => []HeaderHasEncoder
<1>1. Sound => HeaderHasEncoder BY DEF Sound, Phases, HeaderHasEncoder
<1> QED BY <1>1, SoundAlways, PTL

\* Nobody uses a recording that was freed.
THEOREM HandleSafe == Spec => []NobodyInFreedHandle
<1>1. TypeOK /\ Sound => NobodyInFreedHandle
  <2> SUFFICES ASSUME TypeOK, Sound, owner = "idle"
               PROVE  ~input_busy /\ enc = "closed" /\ writer = "none" /\ mutex = "free"
    BY DEF NobodyInFreedHandle
  <2> QED BY DEF TypeOK, StateTypes, FlagTypes, Sound, Phases
<1> QED BY <1>1, SoundAlways, PTL

\* enc_write is killed only in its final sleep.
THEOREM KillSafe == Spec => KilledAtRest
<1>1. TypeOK /\ Sound /\ [Next]_vars =>
        [writer # "none" /\ writer' = "none" => writer = "parked"]_vars
  <2> SUFFICES ASSUME TypeOK, Sound, Next, writer # "none", writer' = "none"
               PROVE  writer = "parked"
    OBVIOUS
  <2>1. ASSUME Kill PROVE writer = "parked"
    BY <2>1 DEF Kill, TypeOK, FlagTypes, Sound, Phases
  <2>2. ASSUME Owner \/ Input \/ Encode, ~Kill PROVE FALSE
    BY <2>2 DEF Owner, OwnerCloses, Input, Encode, Wake, taskVars,
       TaskFails, Open, Start, Toggle, Close, CloseInput, CloseEncoder, StopBegin,
       StopAnswered, StopTick, Handshake, Finish, InputEnter, InputLeave, EncGet,
       EncOutput, EncReset, EncPost
  <2>3. ASSUME Writer PROVE FALSE
    BY <2>3 DEF Writer, Pend, Check, GetFrame, GetStatus, GetRest, RestOverruns, Empty, WriteOk,
       WriteFails, WriteError, WriteDropped, Put, HeadDone, ParkAnswer, ParkClear, taskVars
  <2> QED BY <2>1, <2>2, <2>3 DEF Next
<1> QED BY <1>1, SoundAlways, PTL DEF Spec, KilledAtRest

\* The index of the last recording names a recording that exists, or none.
THEOREM IndexValid == Spec => []IndexNamesFile
<1>1. Init => IndexNamesFile
  BY DEF Init, IndexNamesFile
<1>2. IndexNamesFile /\ [Next]_vars => IndexNamesFile'
  <2> SUFFICES ASSUME IndexNamesFile, [Next]_vars PROVE IndexNamesFile'
    OBVIOUS
  <2>1. CASE TaskFails
    BY <2>1 DEF TaskFails, IndexNamesFile
  <2>2. CASE Open
    BY <2>2 DEF Open, NewFile, IndexNamesFile
  <2>3. CASE Finish
    BY <2>3 DEF Finish, IndexNamesFile
  <2>4. ASSUME ~TaskFails, ~Open, ~Finish PROVE UNCHANGED <<files, enc_file_index>>
    BY <2>4 DEF Next, Owner, OwnerCloses, Input, Encode, Wake, Writer, vars, sessVars,
       Start, Toggle, Close, CloseInput, CloseEncoder, StopBegin, StopAnswered, StopTick,
       Handshake, Kill, InputEnter, InputLeave, EncGet, EncOutput, EncReset, EncPost,
       Pend, Check, GetFrame, GetStatus, GetRest, RestOverruns, Empty, WriteOk, WriteFails, WriteError,
       WriteDropped, Put, HeadDone, ParkAnswer, ParkClear
  <2> QED BY <2>1, <2>2, <2>3, <2>4 DEF IndexNamesFile
<1> QED BY <1>1, <1>2, PTL DEF Spec

\* What pcm2file_enc_close takes away is neither in use nor named.
THEOREM CloseSafe == Spec => []NobodyUsesWhatIsGone
<1>1. HeaderHasEncoder /\ NobodyInFreedHandle /\ IndexNamesFile => NobodyUsesWhatIsGone
  BY DEF NobodyUsesWhatIsGone
<1> QED BY <1>1, HeaderSafe, HandleSafe, IndexValid, PTL
=============================================================================
