------------------------------ MODULE FingerProofs ------------------------------
(* Proofs about Finger, for every set of fingers, number of attempts, buffer  *)
(* size, number of keys held at once and number of stops of the thread.       *)
EXTENDS Finger, TLAPS

--------------------------------------------------------------------------------
\* What the parser takes for a match is the id of an enrolled finger.
LEMMA MatchNamesFinger ==
    ASSUME NEW p \in Packet
    PROVE  /\ p.id \in FingerIds \cup {InvalidId}
           /\ parse_fingerprint_packet(p) = "MATCH_SUCCESS" <=>
                 p.kind = "match" /\ p.id # InvalidId
    BY DEF Packet, parse_fingerprint_packet

\* A call of the display leaves it well typed and its mutex free or missing.
LEMMA SetStateType ==
    ASSUME LcdTypeOK, NEW state \in States, lcd_set_state(state)
    PROVE  LcdTypeOK'
    BY DEF LcdTypeOK, lcd_set_state

LEMMA MessageType ==
    ASSUME LcdTypeOK, NEW text \in Messages, lcd_show_centered_message(text)
    PROVE  LcdTypeOK'
    BY DEF LcdTypeOK, lcd_show_centered_message

--------------------------------------------------------------------------------
(* Type correctness *)

\* The texts of the thread are messages of the display.
LEMMA Texts ==
    /\ "Please place" \in Messages /\ "Finger Failed" \in Messages
    /\ "Lock Failed" \in Messages /\ "RFID Scanning" \in Messages
    /\ "Scan Result" \in Messages /\ "Press KEY2" \in Messages
    BY FingerMessages

LEMMA InitType == FingerInit => FingerTypeOK
<1> SUFFICES ASSUME FingerInit PROVE FingerTypeOK
    OBVIOUS
<1>1. pc \in Places /\ k \in Keys
    BY DEF FingerInit, Places, Keys
<1>2. attempt \in 1 .. RetryCount /\ stops \in 0 .. MaxStops
    BY FingerConstants DEF FingerInit
<1>3. rx \in Seq(Packet)
    BY DEF FingerInit
<1>4. LcdTypeOK
    BY DEF FingerInit, LcdInit, LcdTypeOK
<1>5. QED
    BY <1>1, <1>2, <1>3, <1>4 DEF FingerInit, FingerTypeOK

\* Only the two keys that ask for an operation lead to a session.
KeyAsks == pc \in {"leave_scan", "prompt"} => k \in {0, 1}

\* Every step of the thread ends at a place of the program.
LEMMA ThreadPlaces ==
    ASSUME FingerTypeOK, KeyAsks, ThreadStep
    PROVE  pc' \in Places /\ k' \in Keys /\ KeyAsks'
<1> USE DEF KeyAsks, FingerTypeOK, Places, MainPlaces, SessionPlaces, WaitPlaces, MatchPlaces,
            DoorPlaces, Keys, Goto
<1>1. CASE ServoInit
    BY <1>1 DEF ServoInit
<1>2. CASE DevicesInit
    BY <1>2 DEF DevicesInit
<1>3. CASE Welcome
    BY <1>3 DEF Welcome
<1>4. CASE LoopHead
    BY <1>4 DEF LoopHead
<1>5. CASE Poll
    BY <1>5 DEF Poll, NextKey
<1>6. CASE Debounce
    BY <1>6 DEF Debounce, NextKey
<1>7. CASE Release
    BY <1>7 DEF Release, NextKey
<1>8. CASE LeaveScan
    BY <1>8 DEF LeaveScan, At
<1>9. CASE Prompt
    BY <1>9 DEF Prompt
<1>10. CASE PlaceAgain
    BY <1>10 DEF PlaceAgain
<1>11. CASE ClearBuffer
    BY <1>11 DEF ClearBuffer
<1>12. CASE WriteCommand
    BY <1>12 DEF WriteCommand
<1>13. CASE WriteFails
    BY <1>13 DEF WriteFails
<1>14. CASE SendFailed
    BY <1>14 DEF SendFailed
<1>15. CASE ReadMatch
    BY <1>15 DEF ReadMatch
<1>16. CASE ReadFailure
    BY <1>16 DEF ReadFailure
<1>17. CASE ReadOther
    BY <1>17 DEF ReadOther, threadVars
<1>18. CASE ReadSpins
    BY <1>18 DEF ReadSpins
<1>19. CASE ResponseTimeout
    BY <1>19 DEF ResponseTimeout
<1>20. CASE Unlock
    BY <1>20 DEF Unlock
<1>21. CASE Opened
    BY <1>21 DEF Opened
<1>22. CASE Granted
    BY <1>22 DEF Granted
<1>23. CASE ReportMatch
    BY <1>23 DEF ReportMatch
<1>24. CASE Missed
    BY <1>24 DEF Missed
<1>25. CASE GiveUp
    BY <1>25 DEF GiveUp
<1>26. CASE ShortPress
    BY <1>26 DEF ShortPress
<1>27. CASE LongPress
    BY <1>27 DEF LongPress
<1>28. CASE Lock
    BY <1>28 DEF Lock
<1>29. CASE Closed
    BY <1>29 DEF Closed
<1>30. CASE Locked
    BY <1>30 DEF Locked
<1>31. CASE LockLed
    BY <1>31 DEF LockLed
<1>32. CASE LockFailed
    BY <1>32 DEF LockFailed
<1>33. CASE Countdown
    BY <1>33 DEF Countdown
<1>34. CASE Scan
    BY <1>34 DEF Scan
<1>35. CASE ScanResult
    BY <1>35 DEF ScanResult
<1>36. CASE Offer
    BY <1>36 DEF Offer
<1>37. CASE ShowError
    BY <1>37 DEF ShowError
<1>38. CASE ErrorDone
    BY <1>38 DEF ErrorDone
<1>39. QED
    BY <1>1, <1>2, <1>3, <1>4, <1>5, <1>6, <1>7, <1>8, <1>9, <1>10, <1>11, <1>12,
       <1>13, <1>14, <1>15, <1>16, <1>17, <1>18, <1>19, <1>20, <1>21, <1>22, <1>23, <1>24,
       <1>25, <1>26, <1>27, <1>28, <1>29, <1>30, <1>31, <1>32, <1>33, <1>34, <1>35,
       <1>36, <1>37, <1>38 DEF ThreadStep, MainLoop, Verification, Door

\* The screen stays one of the known screens.
LEMMA ThreadScreen ==
    ASSUME FingerTypeOK, ThreadStep
    PROVE  LcdTypeOK'
<1> USE DEF FingerTypeOK
<1>1. CASE UNCHANGED lcdVars
    BY <1>1 DEF lcdVars, LcdTypeOK
<1>2. CASE Welcome
    BY <1>2, SetStateType DEF Welcome, States
<1>3. CASE LeaveScan
    BY <1>3, SetStateType DEF LeaveScan, States
<1>4. CASE Prompt
    BY <1>4, SetStateType DEF Prompt, States
<1>5. CASE SendFailed
    BY <1>5, SetStateType DEF SendFailed, States
<1>6. CASE Granted
    BY <1>6, SetStateType DEF Granted, States
<1>7. CASE GiveUp
    BY <1>7, SetStateType DEF GiveUp, States
<1>8. CASE Locked
    BY <1>8, SetStateType DEF Locked, States
<1>9. CASE ShowError
    BY <1>9, SetStateType DEF ShowError, States
<1>10. CASE ErrorDone
    BY <1>10, SetStateType DEF ErrorDone, States
<1>11. CASE PlaceAgain
    BY <1>11, MessageType, Texts DEF PlaceAgain
<1>12. CASE LockFailed
    BY <1>12, MessageType, Texts DEF LockFailed
<1>13. CASE Countdown
    BY <1>13, MessageType, Texts DEF Countdown
<1>14. CASE ScanResult
    BY <1>14, MessageType, Texts DEF ScanResult
<1>15. CASE Offer
    BY <1>15, MessageType, Texts DEF Offer
<1>16. CASE Missed
    BY <1>16, SetStateType, MessageType, Texts DEF Missed, States
<1>17. QED
    BY <1>1, <1>2, <1>3, <1>4, <1>5, <1>6, <1>7, <1>8, <1>9, <1>10, <1>11, <1>12,
       <1>13, <1>14, <1>15, <1>16
       DEF ThreadStep, MainLoop, Verification, Door, ServoInit, DevicesInit,
           LoopHead, Poll, Debounce, Release, ClearBuffer, WriteCommand, WriteFails,
           ReadMatch, ReadFailure, ReadOther, ReadSpins, ResponseTimeout, Unlock, Opened,
           ReportMatch, ShortPress, LongPress, Lock, Closed, LockLed, Scan

\* A step of the thread keeps every other variable within its type.
LEMMA ThreadType ==
    ASSUME FingerTypeOK, KeyAsks, ThreadStep
    PROVE  FingerTypeOK' /\ KeyAsks'
<1>1. pc' \in Places /\ k' \in Keys /\ LcdTypeOK' /\ KeyAsks'
    BY ThreadPlaces, ThreadScreen
<1> USE <1>1 DEF FingerTypeOK, lifeVars, doorVars, sessionVars, sensorVars
<1>2. CASE ServoInit
    BY <1>2 DEF ServoInit
<1>3. CASE DevicesInit
    BY <1>3 DEF DevicesInit
<1>4. CASE Welcome
    BY <1>4 DEF Welcome
<1>5. CASE LoopHead
    BY <1>5 DEF LoopHead
<1>6. CASE Poll
    BY <1>6 DEF Poll
<1>7. CASE Debounce
    BY <1>7 DEF Debounce
<1>8. CASE Release
    BY <1>8 DEF Release
<1>9. CASE LeaveScan
    BY <1>9 DEF LeaveScan
<1>10. CASE Prompt
    <2>1. attempt' \in 1 .. RetryCount /\ operation_type' \in {0, 1}
        BY <1>10, FingerConstants DEF Prompt, At, KeyAsks
    <2>2. QED
        BY <1>10, <2>1 DEF Prompt
<1>11. CASE PlaceAgain
    BY <1>11 DEF PlaceAgain
<1>12. CASE ClearBuffer
    BY <1>12 DEF ClearBuffer
<1>13. CASE WriteCommand
    BY <1>13 DEF WriteCommand
<1>14. CASE WriteFails
    BY <1>14 DEF WriteFails
<1>15. CASE SendFailed
    BY <1>15 DEF SendFailed
<1>16. CASE ReadMatch
    <2>1. finger_id' \in FingerIds \cup {InvalidId}
        BY <1>16, MatchNamesFinger DEF ReadMatch
    <2>2. QED
        BY <1>16, <2>1 DEF ReadMatch
<1>17. CASE ReadFailure
    BY <1>17 DEF ReadFailure
<1>18. CASE ReadOther
    BY <1>18 DEF ReadOther
<1>19. CASE ReadSpins
    BY <1>19 DEF ReadSpins
<1>20. CASE ResponseTimeout
    BY <1>20 DEF ResponseTimeout
<1>21. CASE Unlock
    BY <1>21 DEF Unlock
<1>22. CASE Opened
    BY <1>22 DEF Opened
<1>23. CASE Granted
    BY <1>23 DEF Granted
<1>24. CASE ReportMatch
    BY <1>24 DEF ReportMatch
<1>25. CASE Missed
    <2>1. attempt' = attempt \/ (attempt < RetryCount /\ attempt' = attempt + 1)
        BY <1>25 DEF Missed
    <2>2. attempt' \in 1 .. RetryCount
        BY <2>1, FingerConstants
    <2>3. QED
        BY <1>25, <2>2 DEF Missed
<1>26. CASE GiveUp
    BY <1>26 DEF GiveUp
<1>27. CASE ShortPress
    BY <1>27 DEF ShortPress
<1>28. CASE LongPress
    BY <1>28 DEF LongPress
<1>29. CASE Lock
    BY <1>29 DEF Lock
<1>30. CASE Closed
    BY <1>30 DEF Closed
<1>31. CASE Locked
    BY <1>31 DEF Locked
<1>32. CASE LockLed
    BY <1>32 DEF LockLed
<1>33. CASE LockFailed
    BY <1>33 DEF LockFailed
<1>34. CASE Countdown
    BY <1>34 DEF Countdown
<1>35. CASE Scan
    BY <1>35 DEF Scan
<1>36. CASE ScanResult
    BY <1>36 DEF ScanResult
<1>37. CASE Offer
    BY <1>37 DEF Offer
<1>38. CASE ShowError
    BY <1>38 DEF ShowError
<1>39. CASE ErrorDone
    BY <1>39 DEF ErrorDone
<1>40. QED
    BY <1>1, <1>2, <1>3, <1>4, <1>5, <1>6, <1>7, <1>8, <1>9, <1>10, <1>11, <1>12,
       <1>13, <1>14, <1>15, <1>16, <1>17, <1>18, <1>19, <1>20, <1>21, <1>22, <1>23, <1>24,
       <1>25, <1>26, <1>27, <1>28, <1>29, <1>30, <1>31, <1>32, <1>33, <1>34, <1>35,
       <1>36, <1>37, <1>38, <1>39 DEF ThreadStep, MainLoop, Verification, Door

\* Users, the sensor and the threads that start and stop this one.
LEMMA OutsideType ==
    ASSUME FingerTypeOK, KeyAsks, Surroundings \/ Lifecycle \/ UNCHANGED fingerVars
    PROVE  FingerTypeOK' /\ KeyAsks'
<1> USE DEF FingerTypeOK, KeyAsks, Places, MainPlaces, Keys, threadVars, lifeVars, doorVars,
            sessionVars, sensorVars
<1>1. ASSUME NEW key \in Keys, KeyDown(key) \/ KeyUp(key)
      PROVE  FingerTypeOK' /\ KeyAsks'
    <2>1. pressed' \subseteq Keys
        BY <1>1 DEF KeyDown, KeyUp
    <2>2. QED
        BY <1>1, <2>1 DEF KeyDown, KeyUp, lcdVars, LcdTypeOK
<1>2. ASSUME NEW p \in Packet, SensorSends(p)
      PROVE  FingerTypeOK' /\ KeyAsks'
    <2>1. rx' \in Seq(Packet) /\ zw_busy' \in BOOLEAN
        BY <1>2 DEF SensorSends
    <2>2. verdicts' \subseteq FingerIds
        BY <1>2, MatchNamesFinger DEF SensorSends
    <2>3. QED
        BY <1>2, <2>1, <2>2 DEF SensorSends, lcdVars, LcdTypeOK
<1>3. CASE finger_thread_start
    BY <1>3 DEF finger_thread_start, lcdVars, LcdTypeOK
<1>4. CASE finger_thread_stop
    <2>1. stops' \in 0 .. MaxStops
        BY <1>4, FingerConstants DEF finger_thread_stop
    <2>2. LcdTypeOK'
        BY <1>4 DEF finger_thread_stop, lcdVars, LcdTypeOK
    <2>3. pc' \in Places /\ k' \in Keys /\ KeyAsks'
        BY <1>4 DEF finger_thread_stop
    <2>4. QED
        BY <1>4, <2>1, <2>2, <2>3 DEF finger_thread_stop
<1>5. CASE StopDeletes
    <2>1. LcdTypeOK'
        BY <1>5 DEF StopDeletes, LcdOwnerDies, lcdVars, LcdTypeOK
    <2>2. pc' \in Places /\ k' \in Keys /\ KeyAsks'
        BY <1>5 DEF StopDeletes
    <2>3. QED
        BY <1>5, <2>1, <2>2 DEF StopDeletes
<1>6. CASE StopAfterExit
    <2>1. pc' \in Places /\ k' \in Keys /\ KeyAsks'
        BY <1>6 DEF StopAfterExit
    <2>2. finger_thread' \in BOOLEAN /\ stopper' \in {"idle", "waiting", "asserted"}
        BY <1>6 DEF StopAfterExit
    <2>3. LcdTypeOK'
        BY <1>6 DEF StopAfterExit, lcdVars, LcdTypeOK
    <2>4. QED
        BY <1>6, <2>1, <2>2, <2>3 DEF StopAfterExit
<1>7. CASE UNCHANGED fingerVars
    BY <1>7 DEF fingerVars, lcdVars, LcdTypeOK
<1>8. QED
    BY <1>1, <1>2, <1>3, <1>4, <1>5, <1>6, <1>7 DEF Surroundings, Lifecycle

\* Every variable keeps its type, the attempts stay within their number and
\* the key index within the four keys (finger.c:386, 541-706).
THEOREM FingerTypeCorrect == FingerSpec => []FingerTypeOK
<1> DEFINE Inv == FingerTypeOK /\ KeyAsks
<1>1. FingerInit => Inv
    BY InitType DEF FingerInit, KeyAsks
<1>2. Inv /\ [FingerNext]_fingerVars => Inv'
    BY ThreadType, OutsideType DEF FingerNext
<1>3. QED
    BY <1>1, <1>2, PTL DEF FingerSpec

--------------------------------------------------------------------------------
(* A match is acted on only in the session it was given in *)

\* What a session may rely on: it is marked as running, no session starts over
\* another, and after the buffer was cleared what the sensor sends was matched
\* in this session.
SessionInv ==
    /\ pc \in SessionPlaces => finger_verifying
    /\ pc \in {"leave_scan", "prompt"} => ~finger_verifying
    /\ pc \in MatchPlaces => finger_id \in verdicts
    /\ pc \in {"write", "wait"} =>
          \A i \in DOMAIN rx :
             parse_fingerprint_packet(rx[i]) = "MATCH_SUCCESS" => rx[i].id \in verdicts

\* The main loop and the door's keys take no part in a session.
LEMMA OutsideSession ==
    ASSUME MainLoop \/ Door \/ Scan
    PROVE  /\ UNCHANGED <<sessionVars, sensorVars>>
           /\ pc' \notin SessionPlaces
           /\ pc' \in {"leave_scan", "prompt"} => ~finger_verifying
<1> USE DEF Goto, SessionPlaces, WaitPlaces, MatchPlaces
<1>1. CASE MainLoop
    BY <1>1 DEF MainLoop, ServoInit, DevicesInit, Welcome, LoopHead, Poll, Debounce,
       Release, NextKey
<1>2. CASE Door \/ Scan
    BY <1>2 DEF Door, ShortPress, LongPress, Lock, Closed, Locked, LockLed, LockFailed,
       Countdown, Scan, ScanResult, Offer, ShowError, ErrorDone
<1>3. QED
    BY <1>1, <1>2

\* The first settling packet is a match of this session.
LEMMA MatchIsOfSession ==
    ASSUME SessionInv, ReadMatch
    PROVE  finger_id' \in verdicts
    BY DEF SessionInv, ReadMatch, At

LEMMA VerificationKeepsSession ==
    ASSUME SessionInv, Verification \/ ReportMatch
    PROVE  SessionInv'
<1> USE DEF SessionInv, SessionPlaces, WaitPlaces, MatchPlaces, At, Goto, sessionVars,
            sensorVars
<1>1. CASE LeaveScan
    BY <1>1 DEF LeaveScan
<1>2. CASE Prompt
    BY <1>2 DEF Prompt
<1>3. CASE PlaceAgain
    BY <1>3 DEF PlaceAgain
<1>4. CASE ClearBuffer
    BY <1>4 DEF ClearBuffer
<1>5. CASE WriteCommand
    BY <1>5 DEF WriteCommand
<1>6. CASE WriteFails
    BY <1>6 DEF WriteFails
<1>7. CASE SendFailed
    BY <1>7 DEF SendFailed
<1>8. CASE ReadMatch
    BY <1>8, MatchIsOfSession DEF ReadMatch
<1>9. CASE ReadFailure
    BY <1>9 DEF ReadFailure
<1>10. CASE ReadOther
    BY <1>10 DEF ReadOther, threadVars
<1>11. CASE ReadSpins
    BY <1>11 DEF ReadSpins
<1>12. CASE ResponseTimeout
    BY <1>12 DEF ResponseTimeout
<1>13. CASE Unlock
    BY <1>13 DEF Unlock
<1>14. CASE Opened
    BY <1>14 DEF Opened
<1>15. CASE Granted
    BY <1>15 DEF Granted
<1>16. CASE ReportMatch
    BY <1>16 DEF ReportMatch
<1>17. CASE Missed
    BY <1>17 DEF Missed
<1>18. CASE GiveUp
    BY <1>18 DEF GiveUp
<1>19. QED
    BY <1>1, <1>2, <1>3, <1>4, <1>5, <1>6, <1>7, <1>8, <1>9, <1>10, <1>11, <1>12, <1>13,
       <1>14, <1>15, <1>16, <1>17, <1>18 DEF Verification

LEMMA SensorKeepsSession ==
    ASSUME FingerTypeOK, SessionInv, NEW p \in Packet, SensorSends(p)
    PROVE  SessionInv'
<1>1. verdicts \subseteq verdicts' /\ UNCHANGED <<threadVars, sessionVars>>
    BY DEF SensorSends
<1>2. parse_fingerprint_packet(p) = "MATCH_SUCCESS" => p.id \in verdicts'
    BY MatchNamesFinger DEF SensorSends
<1>3. ASSUME NEW i \in DOMAIN rx'
      PROVE  (i \in DOMAIN rx /\ rx'[i] = rx[i]) \/ rx'[i] = p
    BY <1>3 DEF SensorSends, FingerTypeOK
<1>4. QED
    BY <1>1, <1>2, <1>3 DEF SessionInv, threadVars, sessionVars

LEMMA NextKeepsSession ==
    ASSUME FingerTypeOK, SessionInv, [FingerNext]_fingerVars
    PROVE  SessionInv'
<1>1. CASE MainLoop \/ Door \/ Scan
    <2>1. /\ UNCHANGED <<sessionVars, sensorVars>>
          /\ pc' \notin SessionPlaces
          /\ pc' \in {"leave_scan", "prompt"} => ~finger_verifying
        BY <1>1, OutsideSession
    <2>2. QED
        BY <2>1 DEF SessionInv, SessionPlaces, WaitPlaces, sessionVars
<1>2. CASE Verification \/ ReportMatch
    BY <1>2, VerificationKeepsSession
<1>3. ASSUME NEW p \in Packet, SensorSends(p)
      PROVE  SessionInv'
    BY <1>3, SensorKeepsSession
<1>4. ASSUME NEW key \in Keys, KeyDown(key) \/ KeyUp(key)
      PROVE  SessionInv'
    BY <1>4 DEF KeyDown, KeyUp, SessionInv, threadVars, sessionVars, sensorVars
<1>5. CASE Lifecycle
    BY <1>5 DEF Lifecycle, finger_thread_start, finger_thread_stop, StopDeletes,
       StopAfterExit, SessionInv, SessionPlaces, WaitPlaces, MatchPlaces, threadVars,
       sessionVars, sensorVars
<1>6. CASE UNCHANGED fingerVars
    BY <1>6 DEF fingerVars, SessionInv, threadVars, sessionVars, sensorVars
<1>7. QED
    BY <1>1, <1>2, <1>3, <1>4, <1>5, <1>6 DEF FingerNext, ThreadStep, Surroundings

LEMMA SessionHolds == FingerSpec => []SessionInv
<1>1. FingerInit => SessionInv
    BY DEF FingerInit, SessionInv, SessionPlaces, WaitPlaces, MatchPlaces
<1>2. FingerTypeOK /\ SessionInv /\ [FingerNext]_fingerVars => SessionInv'
    BY NextKeepsSession
<1>3. QED
    BY <1>1, <1>2, FingerTypeCorrect, PTL DEF FingerSpec

\* An answer the sensor gave to an earlier command never opens the door, with
\* any number of attempts, any delay of the answers, and stops in between.
THEOREM MatchIsAlwaysFresh == FingerSpec => []MatchIsFresh
<1>1. SessionInv => MatchIsFresh
    BY DEF SessionInv, MatchIsFresh, SessionPlaces
<1>2. QED
    BY <1>1, SessionHolds, PTL

--------------------------------------------------------------------------------
(* The thread implements DoorAccess *)

\* Steps that move nothing the abstract door knows of, or only lock it.
LEMMA KeepsOrLocks ==
    ASSUME MainLoop \/ Door \/ Scan \/ Lifecycle \/ UNCHANGED fingerVars
    PROVE  Access!CloseDoor \/ UNCHANGED Access!accessVars
<1> USE DEF Access!CloseDoor, Access!accessVars, doorVars, sessionVars, sensorVars
<1>1. CASE MainLoop \/ Door \/ Scan
    <2>1. UNCHANGED <<finger_verifying, verdicts>>
        BY <1>1, OutsideSession
    <2>2. CASE MainLoop
        BY <2>1, <2>2 DEF MainLoop, ServoInit, DevicesInit, Welcome, LoopHead, Poll,
           Debounce, Release
    <2>3. CASE Door \/ Scan
        BY <2>1, <2>3 DEF Door, ShortPress, LongPress, Lock, Closed, Locked, LockLed,
           LockFailed, Countdown, Scan, ScanResult, Offer, ShowError, ErrorDone
    <2>4. QED
        BY <1>1, <2>2, <2>3
<1>2. CASE Lifecycle
    BY <1>2 DEF Lifecycle, finger_thread_start, finger_thread_stop, StopDeletes,
       StopAfterExit
<1>3. CASE UNCHANGED fingerVars
    BY <1>3 DEF fingerVars
<1>4. QED
    BY <1>1, <1>2, <1>3

\* The steps of a verification, each as the abstract step it is.
LEMMA VerificationIsAccess ==
    ASSUME SessionInv, Verification \/ ReportMatch
    PROVE  Access!AccessNext \/ UNCHANGED Access!accessVars
<1> USE DEF SessionInv, SessionPlaces, At, Access!AccessNext, Access!accessVars, doorVars,
            sessionVars, sensorVars
<1>1. CASE Prompt
    BY <1>1 DEF Prompt, Access!BeginSession
<1>2. CASE Unlock
    <2>1. finger_verifying /\ verdicts # {}
        BY <1>2 DEF Unlock, MatchPlaces
    <2>2. QED
        BY <1>2, <2>1 DEF Unlock, Access!OpenDoor
<1>3. CASE SendFailed
    BY <1>3 DEF SendFailed, Access!EndSession
<1>4. CASE GiveUp
    BY <1>4 DEF GiveUp, Access!EndSession
<1>5. CASE ReportMatch
    BY <1>5 DEF ReportMatch, MatchPlaces, Access!EndSession
<1>6. CASE LeaveScan \/ PlaceAgain \/ ClearBuffer \/ WriteCommand \/ WriteFails
    BY <1>6 DEF LeaveScan, PlaceAgain, ClearBuffer, WriteCommand, WriteFails
<1>7. CASE ReadMatch \/ ReadFailure \/ ReadOther \/ ReadSpins \/ ResponseTimeout
    BY <1>7 DEF ReadMatch, ReadFailure, ReadOther, ReadSpins, ResponseTimeout
<1>8. CASE Opened \/ Granted \/ Missed
    BY <1>8 DEF Opened, Granted, Missed
<1>9. QED
    BY <1>1, <1>2, <1>3, <1>4, <1>5, <1>6, <1>7, <1>8 DEF Verification

LEMMA NextIsAccess ==
    ASSUME SessionInv, [FingerNext]_fingerVars
    PROVE  [Access!AccessNext]_(Access!accessVars)
<1>1. CASE MainLoop \/ Door \/ Scan \/ Lifecycle \/ UNCHANGED fingerVars
    BY <1>1, KeepsOrLocks DEF Access!AccessNext
<1>2. CASE Verification \/ ReportMatch
    BY <1>2, VerificationIsAccess
<1>3. ASSUME NEW p \in Packet, SensorSends(p)
      PROVE  [Access!AccessNext]_(Access!accessVars)
    <2>1. UNCHANGED <<bolt, finger_verifying>>
        BY <1>3 DEF SensorSends, doorVars, sessionVars
    <2>2. CASE p.kind = "match" /\ p.id # InvalidId
        <3>1. p.id \in FingerIds /\ verdicts' = verdicts \cup {p.id}
            BY <1>3, <2>2, MatchNamesFinger DEF SensorSends
        <3>2. QED
            BY <2>1, <3>1 DEF Access!AccessNext, Access!SensorMatches
    <2>3. CASE ~(p.kind = "match" /\ p.id # InvalidId)
        BY <1>3, <2>1, <2>3 DEF SensorSends, Access!accessVars
    <2>4. QED
        BY <2>2, <2>3
<1>4. ASSUME NEW key \in Keys, KeyDown(key) \/ KeyUp(key)
      PROVE  UNCHANGED Access!accessVars
    BY <1>4 DEF KeyDown, KeyUp, Access!accessVars, doorVars, sessionVars, sensorVars
<1>5. QED
    BY <1>1, <1>2, <1>3, <1>4 DEF FingerNext, ThreadStep, Surroundings

\* The bolt opens only in a session in which the sensor matched a finger
\* (finger.c:386-431), whatever is retried, late, stopped or started again.
THEOREM FingerImplementsDoorAccess == FingerSpec => BoltImplementsDoorAccess
<1>1. FingerInit => Access!AccessInit
    BY DEF FingerInit, Access!AccessInit
<1>2. SessionInv /\ [FingerNext]_fingerVars => [Access!AccessNext]_(Access!accessVars)
    BY NextIsAccess
<1>3. QED
    BY <1>1, <1>2, SessionHolds, PTL
       DEF FingerSpec, BoltImplementsDoorAccess, Access!AccessSpec

--------------------------------------------------------------------------------
(* The prompt on the screen *)

\* Places at which the display may believe it still shows the prompt: before
\* the thread has drawn its first screen, and while a finger is looked for.
PromptPlaces == {"none", "entry", "devices", "welcome", "halted", "spinning",
                 "send_failed", "missed", "unlock", "opened", "granted"} \cup WaitPlaces

\* The display never skips the prompt of a new session, because every session
\* that ends draws another state, and each further attempt draws its own text.
PromptInv ==
    /\ FingerIsPrompted
    /\ pc = "again" => attempt > 1
    /\ lcd_mutex = "free" /\ pc \notin PromptPlaces => current_state # "WAIT_FINGER"

LEMMA ThreadKeepsPrompt ==
    ASSUME FingerTypeOK, PromptInv, ThreadStep
    PROVE  PromptInv'
<1>1. attempt + 1 > 1 /\ (attempt > 1 => attempt # 1)
    BY FingerConstants DEF FingerTypeOK
<1> USE DEF PromptInv, FingerIsPrompted, PromptPlaces, WaitPlaces, At, Goto, sessionVars
<1>2. CASE ServoInit
    BY <1>2 DEF ServoInit, lcdVars
<1>3. CASE DevicesInit
    BY <1>3 DEF DevicesInit, lcdVars
<1>4. CASE Welcome
    BY <1>4 DEF Welcome, lcd_set_state
<1>5. CASE LoopHead
    BY <1>5 DEF LoopHead, lcdVars
<1>6. CASE Poll
    BY <1>6 DEF Poll, NextKey, lcdVars
<1>7. CASE Debounce
    BY <1>7 DEF Debounce, NextKey, lcdVars
<1>8. CASE Release
    BY <1>8 DEF Release, NextKey, lcdVars
<1>9. CASE LeaveScan
    BY <1>9 DEF LeaveScan, lcd_set_state
<1>10. CASE Prompt
    BY <1>10 DEF Prompt, lcd_set_state
<1>11. CASE PlaceAgain
    BY <1>1, <1>11 DEF PlaceAgain, lcd_show_centered_message
<1>12. CASE ClearBuffer
    BY <1>12 DEF ClearBuffer, lcdVars
<1>13. CASE WriteCommand
    BY <1>13 DEF WriteCommand, lcdVars
<1>14. CASE WriteFails
    BY <1>14 DEF WriteFails, lcdVars
<1>15. CASE SendFailed
    BY <1>15 DEF SendFailed, lcd_set_state
<1>16. CASE ReadMatch
    BY <1>16 DEF ReadMatch, lcdVars
<1>17. CASE ReadFailure
    BY <1>17 DEF ReadFailure, lcdVars
<1>18. CASE ReadOther
    BY <1>18 DEF ReadOther, threadVars, lcdVars
<1>19. CASE ReadSpins
    BY <1>19 DEF ReadSpins, lcdVars
<1>20. CASE ResponseTimeout
    BY <1>20 DEF ResponseTimeout, lcdVars
<1>21. CASE Unlock
    BY <1>21 DEF Unlock, lcdVars
<1>22. CASE Opened
    BY <1>22 DEF Opened, lcdVars
<1>23. CASE Granted
    BY <1>23 DEF Granted, lcd_set_state
<1>24. CASE ReportMatch
    BY <1>24 DEF ReportMatch, lcdVars
<1>25. CASE Missed
    <2>1. CASE attempt < RetryCount
        <3>1. pc' = "again" /\ attempt' = attempt + 1
            BY <1>25, <2>1 DEF Missed
        <3>2. attempt' > 1
            BY <1>1, <3>1
        <3>3. QED
            BY <3>1, <3>2
    <2>2. CASE ~(attempt < RetryCount)
        BY <1>25, <2>2 DEF Missed, lcd_set_state
    <2>3. QED
        BY <2>1, <2>2
<1>26. CASE GiveUp
    BY <1>26 DEF GiveUp, lcd_set_state
<1>27. CASE ShortPress
    BY <1>27 DEF ShortPress, lcdVars
<1>28. CASE LongPress
    BY <1>28 DEF LongPress, lcdVars
<1>29. CASE Lock
    BY <1>29 DEF Lock, lcdVars
<1>30. CASE Closed
    BY <1>30 DEF Closed, lcdVars
<1>31. CASE Locked
    BY <1>31 DEF Locked, lcd_set_state
<1>32. CASE LockLed
    BY <1>32 DEF LockLed, lcdVars
<1>33. CASE LockFailed
    BY <1>33 DEF LockFailed, lcd_show_centered_message
<1>34. CASE Countdown
    BY <1>34 DEF Countdown, lcd_show_centered_message
<1>35. CASE Scan
    BY <1>35 DEF Scan, lcdVars
<1>36. CASE ScanResult
    BY <1>36 DEF ScanResult, lcd_show_centered_message
<1>37. CASE Offer
    BY <1>37 DEF Offer, lcd_show_centered_message
<1>38. CASE ShowError
    BY <1>38 DEF ShowError, lcd_set_state
<1>39. CASE ErrorDone
    BY <1>39 DEF ErrorDone, lcd_set_state
<1>40. QED
    BY <1>2, <1>3, <1>4, <1>5, <1>6, <1>7, <1>8, <1>9, <1>10, <1>11,
       <1>12, <1>13, <1>14, <1>15, <1>16, <1>17, <1>18, <1>19, <1>20, <1>21, <1>22,
       <1>23, <1>24, <1>25, <1>26, <1>27, <1>28, <1>29, <1>30, <1>31, <1>32,
       <1>33, <1>34, <1>35, <1>36, <1>37, <1>38, <1>39
       DEF ThreadStep, MainLoop, Verification, Door

LEMMA OutsideKeepsPrompt ==
    ASSUME PromptInv, Surroundings \/ Lifecycle \/ UNCHANGED fingerVars
    PROVE  PromptInv'
<1> USE DEF PromptInv, FingerIsPrompted, PromptPlaces, WaitPlaces, threadVars, sessionVars,
            lcdVars
<1>1. CASE Surroundings
    BY <1>1 DEF Surroundings, KeyDown, KeyUp, SensorSends
<1>2. CASE Lifecycle
    BY <1>2 DEF Lifecycle, finger_thread_start, finger_thread_stop, StopDeletes,
       StopAfterExit, LcdOwnerDies
<1>3. CASE UNCHANGED fingerVars
    BY <1>3 DEF fingerVars
<1>4. QED
    BY <1>1, <1>2, <1>3

\* While a finger is awaited the screen asks for it (finger.c:565, 435-437),
\* although lcd_set_state skips what it believes is shown (lcd.c:54).
THEOREM FingerIsAlwaysPrompted == FingerSpec => []FingerIsPrompted
<1>1. FingerInit => PromptInv
    BY DEF FingerInit, PromptInv, FingerIsPrompted, PromptPlaces
<1>2. FingerTypeOK /\ PromptInv /\ [FingerNext]_fingerVars => PromptInv'
    BY ThreadKeepsPrompt, OutsideKeepsPrompt DEF FingerNext
<1>3. PromptInv => FingerIsPrompted
    BY DEF PromptInv
<1>4. QED
    BY <1>1, <1>2, <1>3, FingerTypeCorrect, PTL DEF FingerSpec

--------------------------------------------------------------------------------
(* Until somebody stops the thread, flag and bolt agree *)

\* The thread is started once and never taken away; while the bolt has moved
\* and the flag has not, pc tells which way it moved.
FlagInv ==
    stops = 0 =>
        /\ stopper = "idle"
        /\ ~finger_thread => pc = "none"
        /\ pc \in {"none", "entry"} => ~is_unlocked /\ ~finger_verifying
        /\ FlagFollowsBolt
        /\ servo_pwm /\ pc = "opened" => bolt = "open"
        /\ servo_pwm /\ pc = "closed" => bolt = "locked"
        /\ VerifyingOnlyInSession

LEMMA ThreadKeepsFlag ==
    ASSUME FlagInv, ThreadStep
    PROVE  FlagInv'
<1> USE DEF FlagInv, FlagFollowsBolt, VerifyingOnlyInSession, SessionPlaces, WaitPlaces,
            MatchPlaces, At, Goto, lifeVars, doorVars, sessionVars
<1>1. CASE ServoInit
    BY <1>1 DEF ServoInit
<1>2. CASE DevicesInit
    BY <1>2 DEF DevicesInit
<1>3. CASE Welcome
    BY <1>3 DEF Welcome
<1>4. CASE LoopHead
    BY <1>4 DEF LoopHead
<1>5. CASE Poll
    BY <1>5 DEF Poll, NextKey
<1>6. CASE Debounce
    BY <1>6 DEF Debounce, NextKey
<1>7. CASE Release
    BY <1>7 DEF Release, NextKey
<1>8. CASE LeaveScan
    BY <1>8 DEF LeaveScan
<1>9. CASE Prompt
    BY <1>9 DEF Prompt
<1>10. CASE PlaceAgain
    BY <1>10 DEF PlaceAgain
<1>11. CASE ClearBuffer
    BY <1>11 DEF ClearBuffer
<1>12. CASE WriteCommand
    BY <1>12 DEF WriteCommand
<1>13. CASE WriteFails
    BY <1>13 DEF WriteFails
<1>14. CASE SendFailed
    BY <1>14 DEF SendFailed
<1>15. CASE ReadMatch
    BY <1>15 DEF ReadMatch
<1>16. CASE ReadFailure
    BY <1>16 DEF ReadFailure
<1>17. CASE ReadOther
    BY <1>17 DEF ReadOther, threadVars
<1>18. CASE ReadSpins
    BY <1>18 DEF ReadSpins
<1>19. CASE ResponseTimeout
    BY <1>19 DEF ResponseTimeout
<1>20. CASE Unlock
    BY <1>20 DEF Unlock
<1>21. CASE Opened
    BY <1>21 DEF Opened
<1>22. CASE Granted
    BY <1>22 DEF Granted
<1>23. CASE ReportMatch
    BY <1>23 DEF ReportMatch
<1>24. CASE Missed
    BY <1>24 DEF Missed
<1>25. CASE GiveUp
    BY <1>25 DEF GiveUp
<1>26. CASE ShortPress
    BY <1>26 DEF ShortPress
<1>27. CASE LongPress
    BY <1>27 DEF LongPress
<1>28. CASE Lock
    BY <1>28 DEF Lock
<1>29. CASE Closed
    BY <1>29 DEF Closed
<1>30. CASE Locked
    BY <1>30 DEF Locked
<1>31. CASE LockLed
    BY <1>31 DEF LockLed
<1>32. CASE LockFailed
    BY <1>32 DEF LockFailed
<1>33. CASE Countdown
    BY <1>33 DEF Countdown
<1>34. CASE Scan
    BY <1>34 DEF Scan
<1>35. CASE ScanResult
    BY <1>35 DEF ScanResult
<1>36. CASE Offer
    BY <1>36 DEF Offer
<1>37. CASE ShowError
    BY <1>37 DEF ShowError
<1>38. CASE ErrorDone
    BY <1>38 DEF ErrorDone
<1>39. QED
    BY <1>1, <1>2, <1>3, <1>4, <1>5, <1>6, <1>7, <1>8, <1>9, <1>10, <1>11,
       <1>12, <1>13, <1>14, <1>15, <1>16, <1>17, <1>18, <1>19, <1>20, <1>21, <1>22,
       <1>23, <1>24, <1>25, <1>26, <1>27, <1>28, <1>29, <1>30, <1>31, <1>32,
       <1>33, <1>34, <1>35, <1>36, <1>37, <1>38
       DEF ThreadStep, MainLoop, Verification, Door

LEMMA OutsideKeepsFlag ==
    ASSUME FingerTypeOK, FlagInv,
           Surroundings \/ Lifecycle \/ UNCHANGED fingerVars
    PROVE  FlagInv'
<1> USE DEF FlagInv, FlagFollowsBolt, VerifyingOnlyInSession, SessionPlaces, WaitPlaces,
            MatchPlaces, threadVars, lifeVars, doorVars, sessionVars
<1>1. CASE Surroundings
    BY <1>1 DEF Surroundings, KeyDown, KeyUp, SensorSends
<1>2. CASE finger_thread_start
    BY <1>2 DEF finger_thread_start
<1>3. CASE finger_thread_stop
    BY <1>3 DEF finger_thread_stop, FingerTypeOK
<1>4. CASE StopDeletes \/ StopAfterExit
    BY <1>4 DEF StopDeletes, StopAfterExit
<1>5. CASE UNCHANGED fingerVars
    BY <1>5 DEF fingerVars
<1>6. QED
    BY <1>1, <1>2, <1>3, <1>4, <1>5 DEF Lifecycle

LEMMA FlagHolds == FingerSpec => []FlagInv
<1>1. FingerInit => FlagInv
    BY DEF FingerInit, FlagInv, FlagFollowsBolt, VerifyingOnlyInSession
<1>2. FingerTypeOK /\ FlagInv /\ [FingerNext]_fingerVars => FlagInv'
    BY ThreadKeepsFlag, OutsideKeepsFlag DEF FingerNext
<1>3. QED
    BY <1>1, <1>2, FingerTypeCorrect, PTL DEF FingerSpec

\* is_unlocked is where the bolt is whenever the thread acts on it (finger.c:142,
\* 155), through sessions that fail while the door is open.
THEOREM FlagAlwaysFollowsBolt == FingerSpec => []FlagFollowsBolt
<1>1. FlagInv => FlagFollowsBolt
    BY DEF FlagInv, FlagFollowsBolt
<1>2. QED
    BY <1>1, FlagHolds, PTL

\* The busy branch (finger.c:548, 592) turns nobody away as long as nobody
\* stops the thread.
THEOREM VerifyingEndsWithSession == FingerSpec => []VerifyingOnlyInSession
<1>1. FlagInv => VerifyingOnlyInSession
    BY DEF FlagInv, VerifyingOnlyInSession
<1>2. QED
    BY <1>1, FlagHolds, PTL
=================================================================================
