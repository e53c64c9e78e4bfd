----------------------------- MODULE CabinetProofs -----------------------------
(* Proofs about Cabinet, for every set of users and results, every number of  *)
(* attempts and every counter that holds the countdown and the window. The    *)
(* invariants of the thread are those of FingerProofs.                        *)
EXTENDS Cabinet, FingerProofs

\* The scan procedure runs only while the thread takes the door for unlocked,
\* which it does only with a servo.
UnlockedToScan ==
    /\ stops = 0
    /\ is_unlocked \/ pc = "opened" => servo_pwm
    /\ pc \in {"hold", "countdown", "scan"} => is_unlocked

ThreadInv == FingerTypeOK /\ KeyAsks /\ SessionInv /\ FlagInv /\ UnlockedToScan

RecordInv == Msg!MsgTypeOK /\ Msg!NoHalfEvent

\* A match waits only until a scan answers it, and when a scan is taken the
\* window of the last match has closed.
HolderInv ==
    /\ holder \in [user : FingerIds, operation : {0, 1}] \cup {NoEntry}
    /\ answer \in {"none yet", "no item", "item"}
    /\ MatchWaitsForScan
    /\ holder # NoEntry => msg_initialized
    /\ finger_received => holder # NoEntry /\ answer = "none yet"
    /\ pc = "scan" /\ last_finger_operation # Msg!NoOperation => since_finger >= Window

CabinetInv == ThreadInv /\ RecordInv /\ HolderInv

--------------------------------------------------------------------------------
(* What the handlers of msg.c do to the record *)

\* With no scan pending, a match is stored and nothing is sent.
LEMMA MatchIsStored ==
    ASSUME RecordInv, NEW id \in FingerIds, NEW op \in {0, 1},
           Msg!finger_callback_handler(id, op)
    PROVE  /\ RecordInv'
           /\ finger_received' /\ msg_initialized' /\ outbox' = outbox
           /\ current_msg'.finger_id = id /\ current_msg'.operation_type = op
<1> DEFINE m == [current_msg EXCEPT !.finger_id = id, !.operation_type = op,
                                    !.msg_type = Msg!TypeOfOperation(op)]
<1> USE CabinetConstants DEF RecordInv, Msg!MsgTypeOK, Msg!NoHalfEvent
<1>1. /\ msg_initialized /\ msg_initialized' = msg_initialized
      /\ last_finger_operation' = op /\ since_finger' = 0 /\ elapsed' = 0
      /\ finger_received' = TRUE /\ current_msg' = m
      /\ rfid_received' = rfid_received /\ outbox' = outbox
    BY DEF Msg!finger_callback_handler
<1>2. /\ m \in Msg!MsgData
      /\ m.finger_id = id /\ m.operation_type = op
      /\ m.msg_type = Msg!TypeOfOperation(op)
    BY DEF Msg!MsgData, Msg!Ids, Msg!Operations, Msg!Store, Msg!Take, Msg!TypeOfOperation
<1>3. Msg!MsgTypeOK'
    BY <1>1, <1>2 DEF Msg!Operations, Msg!Store, Msg!Take
<1>4. Msg!NoHalfEvent'
    BY <1>1, <1>2
<1>5. QED
    BY <1>1, <1>2, <1>3, <1>4

\* What a scan leads to is sent only when a match waits or the window is open,
\* and with a match that waits, under its user and operation.
LEMMA ScanSends ==
    ASSUME RecordInv, NEW r \in Results, Msg!rfid_callback_handler(r)
    PROVE  /\ RecordInv'
           /\ finger_received' = FALSE
           /\ UNCHANGED <<msg_initialized, last_finger_operation, since_finger>>
           /\ Len(outbox') > Len(outbox) =>
                 /\ finger_received \/ Msg!WindowOpen
                 /\ finger_received =>
                       /\ outbox'[Len(outbox')].user = current_msg.finger_id
                       /\ outbox'[Len(outbox')].operation = current_msg.operation_type
<1> DEFINE m == Msg!ScanRecord(r)
<1>1. /\ m \in Msg!MsgData
      /\ m.msg_type \in {"STORE", "TAKE"} => finger_received \/ Msg!WindowOpen
      /\ finger_received => /\ m.finger_id = current_msg.finger_id
                            /\ m.operation_type = current_msg.operation_type
    BY DEF RecordInv, Msg!MsgTypeOK, Msg!NoHalfEvent, Msg!ScanRecord, Msg!MsgData,
           Msg!WindowOpen, Msg!Ids, Msg!TypeOfOperation, Msg!Operations,
           Msg!NoOperation, Msg!Store, Msg!Take
<1>2. m.finger_id # InvalidId
    BY <1>1, CabinetConstants DEF Msg!MsgData, Msg!Ids
<1>3. /\ UNCHANGED <<msg_initialized, last_finger_operation, since_finger, elapsed>>
      /\ Msg!msg_generate_and_send(m)
    BY DEF Msg!rfid_callback_handler
<1>4. /\ finger_received' = FALSE /\ rfid_received' = FALSE
      /\ current_msg' = [m EXCEPT !.msg_type = "NONE"]
      /\ outbox' # outbox => /\ m.msg_type \in {"STORE", "TAKE"}
                             /\ outbox' = Append(outbox, Msg!EventOf(m))
    BY <1>2, <1>3 DEF Msg!msg_generate_and_send, Msg!msg_clear_flags,
                      Msg!onenet_upload_event
<1>5. current_msg' \in Msg!MsgData /\ current_msg'.msg_type = "NONE"
    BY <1>1, <1>4 DEF Msg!MsgData
<1>6. Msg!EventOf(m) \in Msg!Event /\ outbox \in Seq(Msg!Event)
    BY <1>1 DEF Msg!EventOf, Msg!Event, Msg!MsgData, RecordInv, Msg!MsgTypeOK
<1>7. outbox' \in Seq(Msg!Event)
    BY <1>4, <1>6
<1>8. RecordInv'
    BY <1>3, <1>4, <1>5, <1>7 DEF RecordInv, Msg!MsgTypeOK, Msg!NoHalfEvent
<1>9. ASSUME Len(outbox') > Len(outbox)
      PROVE  /\ finger_received \/ Msg!WindowOpen
             /\ finger_received =>
                   /\ outbox'[Len(outbox')].user = current_msg.finger_id
                   /\ outbox'[Len(outbox')].operation = current_msg.operation_type
    <2>1. m.msg_type \in {"STORE", "TAKE"} /\ outbox' = Append(outbox, Msg!EventOf(m))
        BY <1>4, <1>6, <1>9
    <2>2. outbox'[Len(outbox')] = Msg!EventOf(m)
        BY <1>6, <2>1
    <2>3. QED
        BY <1>1, <2>1, <2>2 DEF Msg!EventOf
<1>10. QED
    BY <1>3, <1>4, <1>8, <1>9

--------------------------------------------------------------------------------
(* The thread *)

\* A step of the cabinet is a step of the thread, of the user, of the sensor or
\* the start, or leaves all of finger.c alone.
LEMMA CabinetMovesThread ==
    ASSUME [CabinetNext]_cabinetVars
    PROVE  ThreadStep \/ Surroundings \/ finger_thread_start \/ UNCHANGED fingerVars
    BY DEF CabinetNext, cabinetVars, ThreadStep, Boot, StartThread, ThreadWaits, Work,
           MatchIsReported, ScanIsReported, ScanFails, UserOrSensor, EventIsSent

LEMMA ThreadKeepsUnlocked ==
    ASSUME UnlockedToScan, ThreadStep
    PROVE  UnlockedToScan'
<1> USE DEF UnlockedToScan, At, Goto, lifeVars, doorVars
<1>1. CASE MainLoop
    BY <1>1 DEF MainLoop, ServoInit, DevicesInit, Welcome, LoopHead, Poll, Debounce,
                Release, NextKey, threadVars
<1>2. CASE LeaveScan \/ Prompt
    BY <1>2 DEF LeaveScan, Prompt
<1>3. CASE PlaceAgain
    BY <1>3 DEF PlaceAgain
<1>4. CASE ClearBuffer \/ WriteCommand \/ WriteFails
    BY <1>4 DEF ClearBuffer, WriteCommand, WriteFails
<1>5. CASE SendFailed \/ ReadMatch \/ ReadFailure \/ ReadOther \/ ReadSpins \/ ResponseTimeout
    BY <1>5 DEF SendFailed, ReadMatch, ReadFailure, ReadOther, ReadSpins, ResponseTimeout, threadVars
<1>6. CASE Unlock \/ Opened \/ Granted
    BY <1>6 DEF Unlock, Opened, Granted
<1>7. CASE Missed
    BY <1>7 DEF Missed
<1>8. CASE GiveUp
    BY <1>8 DEF GiveUp
<1>9. CASE ShortPress \/ LongPress \/ Lock \/ Closed
    BY <1>9 DEF ShortPress, LongPress, Lock, Closed
<1>10. CASE Locked \/ LockLed
    BY <1>10 DEF Locked, LockLed
<1>11. CASE LockFailed
    BY <1>11 DEF LockFailed
<1>12. CASE Countdown
    BY <1>12 DEF Countdown
<1>13. CASE ScanResult
    BY <1>13 DEF ScanResult
<1>14. CASE Offer
    BY <1>14 DEF Offer
<1>15. CASE ShowError \/ ErrorDone \/ ReportMatch \/ Scan
    BY <1>15 DEF ShowError, ErrorDone, ReportMatch, Scan
<1>16. QED
    BY <1>1, <1>2, <1>3, <1>4, <1>5, <1>6, <1>7, <1>8, <1>9, <1>10, <1>11, <1>12, <1>13, <1>14, <1>15
       DEF ThreadStep, Verification, Door

LEMMA CabinetKeepsThread ==
    ASSUME ThreadInv, [CabinetNext]_cabinetVars
    PROVE  ThreadInv'
<1>1. ThreadStep \/ Surroundings \/ finger_thread_start \/ UNCHANGED fingerVars
    BY CabinetMovesThread
<1>2. ThreadStep \/ Surroundings \/ Lifecycle \/ UNCHANGED fingerVars
    BY <1>1 DEF Lifecycle
<1>3. [FingerNext]_fingerVars
    BY <1>2 DEF FingerNext
<1>4. FingerTypeOK' /\ KeyAsks'
    BY <1>2, ThreadType, OutsideType DEF ThreadInv
<1>5. SessionInv'
    BY <1>3, NextKeepsSession DEF ThreadInv
<1>6. FlagInv'
    BY <1>2, ThreadKeepsFlag, OutsideKeepsFlag DEF ThreadInv
<1>7. UnlockedToScan'
    <2>1. CASE ThreadStep
        BY <2>1, ThreadKeepsUnlocked DEF ThreadInv
    <2>2. CASE Surroundings \/ UNCHANGED fingerVars
        BY <2>2 DEF ThreadInv, UnlockedToScan, Surroundings, KeyDown, KeyUp, SensorSends,
                    fingerVars, threadVars, lifeVars, doorVars
    <2>3. CASE finger_thread_start
        BY <2>3 DEF ThreadInv, UnlockedToScan, finger_thread_start, doorVars
    <2>4. QED
        BY <1>1, <2>1, <2>2, <2>3
<1>8. QED
    BY <1>4, <1>5, <1>6, <1>7 DEF ThreadInv

--------------------------------------------------------------------------------
(* The record and its match *)

\* Time that passes touches neither the record nor what waits in it, keeps a
\* closed window closed, and after a countdown the window is closed.
LEMMA TimeClosesWindow ==
    ASSUME RecordInv, NEW n \in Nat, TimePasses(n)
    PROVE  /\ RecordInv'
           /\ UNCHANGED <<current_msg, msg_initialized, finger_received,
                          last_finger_operation, outbox>>
           /\ since_finger >= Window => since_finger' >= Window
           /\ n = CountdownTicks => since_finger' >= Window
<1> USE CabinetConstants DEF RecordInv, Msg!MsgTypeOK, Msg!NoHalfEvent
<1>1. CASE since_finger + n < TickMod
    <2>1. /\ since_finger' = (since_finger + n) % TickMod
          /\ elapsed' = Msg!Capped(elapsed + n)
          /\ UNCHANGED <<current_msg, msg_initialized, finger_received, rfid_received,
                         last_finger_operation, outbox>>
        BY <1>1 DEF TimePasses, Msg!Advance
    <2>2. since_finger' = since_finger + n
        BY <1>1, <2>1
    <2>3. elapsed' \in 0 .. Window
        BY <2>1 DEF Msg!Capped
    <2>4. QED
        BY <1>1, <2>1, <2>2, <2>3
<1>2. CASE ~(since_finger + n < TickMod)
    <2>1. UNCHANGED msgVars
        BY <1>2 DEF TimePasses
    <2>2. n = CountdownTicks => since_finger >= Window
        BY <1>2
    <2>3. QED
        BY <2>1, <2>2 DEF msgVars
<1>3. QED
    BY <1>1, <1>2

\* Only the countdown leads to the scan.
LEMMA CountdownLeadsToScan ==
    ASSUME MainLoop \/ Verification \/ Door, pc' = "scan", pc # "scan"
    PROVE  pc = "countdown"
<1> USE DEF At, Goto
<1>1. CASE MainLoop
    BY <1>1 DEF MainLoop, ServoInit, DevicesInit, Welcome, LoopHead, Poll, Debounce,
                Release, NextKey
<1>2. CASE LeaveScan \/ Prompt \/ PlaceAgain \/ ClearBuffer \/ WriteCommand \/ WriteFails
    BY <1>2 DEF LeaveScan, Prompt, PlaceAgain, ClearBuffer, WriteCommand, WriteFails
<1>3. CASE SendFailed \/ ReadMatch \/ ReadFailure \/ ReadOther \/ ReadSpins \/ ResponseTimeout
    BY <1>3 DEF SendFailed, ReadMatch, ReadFailure, ReadOther, ReadSpins, ResponseTimeout,
                threadVars
<1>4. CASE Unlock \/ Opened \/ Granted \/ Missed \/ GiveUp
    BY <1>4 DEF Unlock, Opened, Granted, Missed, GiveUp
<1>5. CASE ShortPress \/ LongPress \/ Lock \/ Closed \/ Locked \/ LockLed \/ LockFailed
    BY <1>5 DEF ShortPress, LongPress, Lock, Closed, Locked, LockLed, LockFailed
<1>6. CASE Countdown \/ ScanResult \/ Offer \/ ShowError \/ ErrorDone
    BY <1>6 DEF Countdown, ScanResult, Offer, ShowError, ErrorDone
<1>7. QED
    BY <1>1, <1>2, <1>3, <1>4, <1>5, <1>6 DEF Verification, Door

LEMMA WorkKeepsHolder ==
    ASSUME RecordInv, HolderInv, Work
    PROVE  RecordInv' /\ HolderInv'
<1>1. /\ RecordInv'
      /\ UNCHANGED <<current_msg, msg_initialized, finger_received,
                     last_finger_operation, outbox>>
      /\ since_finger >= Window => since_finger' >= Window
      /\ pc = "countdown" => since_finger' >= Window
    <2>1. CASE pc = "countdown"
        BY <2>1, TimeClosesWindow, CabinetConstants DEF Work, At
    <2>2. CASE pc # "countdown"
        BY <2>2 DEF Work, At, msgVars, RecordInv, Msg!MsgTypeOK, Msg!NoHalfEvent
    <2>3. QED
        BY <2>1, <2>2
<1>2. pc' = "scan" => pc \in {"scan", "countdown"}
    BY CountdownLeadsToScan DEF Work
<1>3. UNCHANGED history
    BY DEF Work
<1>4. QED
    BY <1>1, <1>2, <1>3 DEF HolderInv, MatchWaitsForScan, history

\* The match the thread acts on is the one the record waits with.
LEMMA MatchKeepsHolder ==
    ASSUME ThreadInv, RecordInv, HolderInv, MatchIsReported
    PROVE  RecordInv' /\ HolderInv'
<1>1. pc = "report" /\ pc' = "release" /\ operation_type \in {0, 1}
    BY DEF MatchIsReported, ReportMatch, At, Goto, ThreadInv, FingerTypeOK
<1>2. finger_id \in FingerIds
    BY <1>1 DEF ThreadInv, FingerTypeOK, SessionInv, MatchPlaces
<1>3. Msg!finger_callback_handler(finger_id, operation_type)
    BY DEF MatchIsReported
<1>4. /\ RecordInv'
      /\ finger_received' /\ msg_initialized'
      /\ current_msg'.finger_id = finger_id
      /\ current_msg'.operation_type = operation_type
    BY <1>1, <1>2, <1>3, MatchIsStored
<1>5. /\ holder' = [user |-> finger_id, operation |-> operation_type]
      /\ answer' = "none yet"
    BY DEF MatchIsReported
<1>6. holder' \in [user : FingerIds, operation : {0, 1}] /\ holder' # NoEntry
    <2>1. [user |-> finger_id, operation |-> operation_type]
              \in [user : FingerIds, operation : {0, 1}]
        BY <1>1, <1>2
    <2>2. QED
        BY <1>5, <2>1, CabinetConstants
<1>7. holder'.user = finger_id /\ holder'.operation = operation_type
    BY <1>5
<1>8. QED
    BY <1>1, <1>4, <1>5, <1>6, <1>7 DEF HolderInv, MatchWaitsForScan

\* A scan answers the match.
LEMMA ScanKeepsHolder ==
    ASSUME RecordInv, HolderInv, ScanIsReported
    PROVE  RecordInv' /\ HolderInv'
<1>1. PICK r \in Results :
         /\ Msg!rfid_callback_handler(r)
         /\ answer' = IF answer = "item" \/ r \in ItemResults THEN "item" ELSE "no item"
    BY DEF ScanIsReported
<1>2. /\ RecordInv' /\ finger_received' = FALSE
      /\ UNCHANGED <<msg_initialized, last_finger_operation, since_finger>>
    BY <1>1, ScanSends
<1>3. holder' = holder /\ pc' = "result" /\ answer' \in {"no item", "item"}
    BY <1>1 DEF ScanIsReported, Scan, Goto
<1>4. QED
    BY <1>2, <1>3 DEF HolderInv, MatchWaitsForScan

LEMMA BootKeepsHolder ==
    ASSUME RecordInv, HolderInv, Boot
    PROVE  RecordInv' /\ HolderInv'
<1>1. /\ ~msg_initialized /\ msg_initialized' = TRUE
      /\ current_msg' = Msg!ZeroMsg
      /\ finger_received' = FALSE /\ rfid_received' = FALSE
      /\ last_finger_operation' = Msg!NoOperation
      /\ UNCHANGED <<since_finger, elapsed, outbox, holder, answer>>
    BY DEF Boot, Msg!msg_module_init, history
<1>2. Msg!ZeroMsg \in Msg!MsgData /\ Msg!ZeroMsg.msg_type = "NONE"
    BY CabinetConstants DEF Msg!ZeroMsg, Msg!MsgData, Msg!Ids, Msg!Operations, Msg!Store
<1>3. RecordInv'
    BY <1>1, <1>2 DEF RecordInv, Msg!MsgTypeOK, Msg!NoHalfEvent
<1>4. holder = NoEntry
    BY <1>1 DEF HolderInv
<1>5. QED
    BY <1>1, <1>3, <1>4 DEF HolderInv, MatchWaitsForScan

\* Steps that leave the record alone and do not lead to a scan.
LEMMA OthersKeepHolder ==
    ASSUME RecordInv, HolderInv,
           StartThread \/ ScanFails \/ UserOrSensor \/ UNCHANGED cabinetVars
    PROVE  RecordInv' /\ HolderInv'
<1>1. UNCHANGED <<msgVars, history>> /\ (pc' = "scan" => pc = "scan")
    BY DEF StartThread, ScanFails, UserOrSensor, cabinetVars, finger_thread_start, Scan,
           Goto, Surroundings, KeyDown, KeyUp, SensorSends, fingerVars, threadVars
<1>2. RecordInv'
    BY <1>1 DEF RecordInv, Msg!MsgTypeOK, Msg!NoHalfEvent, msgVars
<1>3. QED
    BY <1>1, <1>2 DEF HolderInv, MatchWaitsForScan, msgVars, history

LEMMA SendKeepsHolder ==
    ASSUME RecordInv, HolderInv, EventIsSent
    PROVE  RecordInv' /\ HolderInv'
<1>1. /\ outbox # <<>> /\ outbox' = Tail(outbox)
      /\ UNCHANGED <<current_msg, msg_initialized, finger_received, rfid_received,
                     last_finger_operation, since_finger, elapsed, pc, holder, answer>>
    BY DEF EventIsSent, Msg!Deliver, fingerVars, threadVars, history
<1>2. outbox' \in Seq(Msg!Event)
    BY <1>1 DEF RecordInv, Msg!MsgTypeOK
<1>3. QED
    BY <1>1, <1>2 DEF RecordInv, HolderInv, MatchWaitsForScan, Msg!MsgTypeOK,
                      Msg!NoHalfEvent

LEMMA WaitingKeepsHolder ==
    ASSUME RecordInv, HolderInv, ThreadWaits
    PROVE  RecordInv' /\ HolderInv'
<1>1. TimePasses(1) /\ UNCHANGED <<pc, holder, answer>>
    BY DEF ThreadWaits, fingerVars, threadVars, history
<1>2. QED
    BY <1>1, TimeClosesWindow DEF HolderInv, MatchWaitsForScan

LEMMA CabinetInitHolds == CabinetInit => CabinetInv
<1> SUFFICES ASSUME CabinetInit PROVE CabinetInv
    OBVIOUS
<1>1. FingerInit /\ Msg!MsgInit /\ holder = NoEntry /\ answer = "none yet"
    BY DEF CabinetInit
<1>2. FingerTypeOK
    BY <1>1, InitType
<1>3. KeyAsks /\ SessionInv /\ FlagInv /\ UnlockedToScan
    BY <1>1 DEF FingerInit, KeyAsks, SessionInv, SessionPlaces, WaitPlaces, MatchPlaces,
                FlagInv, FlagFollowsBolt, VerifyingOnlyInSession, UnlockedToScan
<1>4. Msg!ZeroMsg \in Msg!MsgData /\ Msg!ZeroMsg.msg_type = "NONE"
    BY CabinetConstants DEF Msg!ZeroMsg, Msg!MsgData, Msg!Ids, Msg!Operations, Msg!Store
<1>5. RecordInv
    <2>1. since_finger = 0 /\ elapsed = Window /\ outbox = <<>>
        BY <1>1 DEF Msg!MsgInit
    <2>2. since_finger \in 0 .. TickMod - 1 /\ elapsed \in 0 .. Window
        BY <2>1, CabinetConstants
    <2>3. outbox \in Seq(Msg!Event)
        BY <2>1
    <2>4. QED
        BY <1>1, <1>4, <2>2, <2>3 DEF Msg!MsgInit, RecordInv, Msg!MsgTypeOK, Msg!NoHalfEvent
<1>6. HolderInv
    BY <1>1 DEF FingerInit, Msg!MsgInit, HolderInv, MatchWaitsForScan
<1>7. QED
    BY <1>2, <1>3, <1>5, <1>6 DEF CabinetInv, ThreadInv

LEMMA CabinetNextKeepsInv ==
    ASSUME CabinetInv, [CabinetNext]_cabinetVars
    PROVE  CabinetInv'
<1>1. ThreadInv'
    BY CabinetKeepsThread DEF CabinetInv
<1>2. RecordInv' /\ HolderInv'
    BY BootKeepsHolder, WaitingKeepsHolder, WorkKeepsHolder, MatchKeepsHolder,
       ScanKeepsHolder, OthersKeepHolder, SendKeepsHolder DEF CabinetInv, CabinetNext
<1>3. QED
    BY <1>1, <1>2 DEF CabinetInv

LEMMA CabinetInvHolds == CabinetSpec => []CabinetInv
    BY CabinetInitHolds, CabinetNextKeepsInv, PTL DEF CabinetSpec

--------------------------------------------------------------------------------
(* The properties *)

\* Thread, record and history are well typed after every sequence of keys,
\* answers and scans.
THEOREM CabinetTypeCorrect == CabinetSpec => []CabinetTypeOK
<1>1. CabinetInv => CabinetTypeOK
    BY DEF CabinetInv, ThreadInv, RecordInv, HolderInv, CabinetTypeOK
<1>2. QED
    BY <1>1, CabinetInvHolds, PTL

\* A match the thread reported is still in the record of msg.c when the scan
\* that answers it comes, whatever keys are pressed in between.
THEOREM MatchAlwaysWaits == CabinetSpec => []MatchWaitsForScan
<1>1. CabinetInv => MatchWaitsForScan
    BY DEF CabinetInv, HolderInv
<1>2. QED
    BY <1>1, CabinetInvHolds, PTL

\* An event is accepted only in a step that takes a scan, and for a match that
\* waits.
LEMMA ReportAnswersMatch ==
    ASSUME CabinetInv, [CabinetNext]_cabinetVars, Len(outbox') > Len(outbox)
    PROVE  /\ pc = "scan" /\ finger_received
           /\ outbox'[Len(outbox')].user = current_msg.finger_id
           /\ outbox'[Len(outbox')].operation = current_msg.operation_type
<1> USE DEF CabinetInv
<1>1. outbox \in Seq(Msg!Event)
    BY DEF RecordInv, Msg!MsgTypeOK
<1>2. ~ (Boot \/ StartThread \/ ScanFails \/ UserOrSensor \/ UNCHANGED cabinetVars)
    BY <1>1 DEF Boot, Msg!msg_module_init, StartThread, ScanFails, UserOrSensor,
                cabinetVars, msgVars
<1>3. ~ (Work \/ ThreadWaits)
    BY <1>1, TimeClosesWindow, CabinetConstants DEF Work, ThreadWaits, msgVars
<1>4. ~ EventIsSent
    BY <1>1 DEF EventIsSent, Msg!Deliver
<1>5. ~ MatchIsReported
    <2>1. SUFFICES ASSUME MatchIsReported PROVE FALSE
        OBVIOUS
    <2>2. outbox' = outbox
        BY <2>1 DEF MatchIsReported, Msg!finger_callback_handler, RecordInv,
                    Msg!NoHalfEvent
    <2>3. QED
        BY <1>1, <2>2
<1>6. ScanIsReported
    BY <1>2, <1>3, <1>4, <1>5 DEF CabinetNext
<1>7. PICK r \in Results : Msg!rfid_callback_handler(r)
    BY <1>6 DEF ScanIsReported
<1>8. pc = "scan"
    BY <1>6 DEF ScanIsReported, Scan, At
<1>9. ~Msg!WindowOpen
    <2>1. since_finger \in Nat
        BY CabinetConstants DEF RecordInv, Msg!MsgTypeOK
    <2>2. last_finger_operation # Msg!NoOperation => since_finger >= Window
        BY <1>8 DEF HolderInv
    <2>3. QED
        BY <2>1, <2>2, CabinetConstants DEF Msg!WindowOpen
<1>10. QED
    BY <1>7, <1>8, <1>9, ScanSends

\* Every report leaves with the door open and carries the user the sensor
\* matched last and the operation that user pressed.
THEOREM ReportsAlwaysNameTheHolder == CabinetSpec => ReportsNameTheHolder
<1>1. ASSUME CabinetInv, [CabinetNext]_cabinetVars, Len(outbox') > Len(outbox)
      PROVE  /\ bolt = "open" /\ is_unlocked
             /\ holder # NoEntry
             /\ outbox'[Len(outbox')].user = holder.user
             /\ outbox'[Len(outbox')].operation = holder.operation
    <2>1. /\ pc = "scan" /\ finger_received
          /\ outbox'[Len(outbox')].user = current_msg.finger_id
          /\ outbox'[Len(outbox')].operation = current_msg.operation_type
        BY <1>1, ReportAnswersMatch
    <2>2. is_unlocked /\ bolt = "open"
        BY <1>1, <2>1 DEF CabinetInv, ThreadInv, UnlockedToScan, FlagInv, FlagFollowsBolt
    <2>3. holder # NoEntry /\ answer = "none yet"
        BY <1>1, <2>1 DEF CabinetInv, HolderInv
    <2>4. /\ current_msg.finger_id = holder.user
          /\ current_msg.operation_type = holder.operation
        BY <1>1, <2>3 DEF CabinetInv, HolderInv, MatchWaitsForScan
    <2>5. QED
        BY <2>1, <2>2, <2>3, <2>4
<1>2. QED
    BY <1>1, CabinetInvHolds, PTL DEF CabinetSpec, ReportsNameTheHolder

\* No match is reported twice: the scan of a report is the first one since the
\* match, because a scan begins only after the window of msg.c:80 has closed.
THEOREM OnlyOneReportPerMatch == CabinetSpec => OneReportPerMatch
<1>1. ASSUME CabinetInv, [CabinetNext]_cabinetVars, Len(outbox') > Len(outbox)
      PROVE  answer = "none yet"
    BY <1>1, ReportAnswersMatch DEF CabinetInv, HolderInv
<1>2. QED
    BY <1>1, CabinetInvHolds, PTL DEF CabinetSpec, OneReportPerMatch

--------------------------------------------------------------------------------
(* The cabinet keeps the promise of the thread *)

\* Thread and message module together open the bolt only as DoorAccess allows,
\* although the calls of the message module now go on between the steps.
THEOREM CabinetImplementsDoorAccess == CabinetSpec => BoltImplementsDoorAccess
<1>1. CabinetInit => Access!AccessInit
    BY DEF CabinetInit, FingerInit, Access!AccessInit
<1>2. CabinetInv /\ [CabinetNext]_cabinetVars => [Access!AccessNext]_(Access!accessVars)
    <2>1. SUFFICES ASSUME CabinetInv, [CabinetNext]_cabinetVars
                   PROVE  [Access!AccessNext]_(Access!accessVars)
        OBVIOUS
    <2>2. [FingerNext]_fingerVars
        BY <2>1, CabinetMovesThread DEF FingerNext, Lifecycle
    <2>3. QED
        BY <2>1, <2>2, NextIsAccess DEF CabinetInv, ThreadInv
<1>3. QED
    BY <1>1, <1>2, CabinetInvHolds, PTL
       DEF CabinetSpec, BoltImplementsDoorAccess, Access!AccessSpec
=================================================================================
