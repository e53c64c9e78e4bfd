------------------------------- MODULE MsgProofs -------------------------------
(* Proofs about Msg, for every set of fingers and results, every range of the *)
(* tick counter and every length of the window.                               *)
EXTENDS Msg, TLAPS

\* The age of the last match as the code computes it is its real age as long
\* as that is less than the window.
AgeIsExact ==
    last_finger_operation # NoOperation /\ elapsed < Window => since_finger = elapsed

MsgInv == MsgTypeOK /\ NoHalfEvent /\ AgeIsExact

--------------------------------------------------------------------------------
\* Sending or dropping an event keeps the queue a sequence of events.
LEMMA UploadType ==
    ASSUME NEW m \in MsgData, outbox \in Seq(Event), onenet_upload_event(m)
    PROVE  outbox' \in Seq(Event)
<1>1. EventOf(m) \in Event
    BY DEF EventOf, Event, MsgData
<1>2. QED
    BY <1>1 DEF onenet_upload_event

\* The record a scan is sent as is well typed; it has a store or take type
\* exactly when a match waits or the window is open.
LEMMA ScanRecordType ==
    ASSUME MsgInv, NEW r \in Results
    PROVE  /\ ScanRecord(r) \in MsgData
           /\ ScanRecord(r).rfid_result = r
           /\ finger_received \/ WindowOpen <=> ScanRecord(r).msg_type \in {"STORE", "TAKE"}
           /\ finger_received =>
                 /\ ScanRecord(r).finger_id = current_msg.finger_id
                 /\ ScanRecord(r).operation_type = current_msg.operation_type
           /\ ~finger_received /\ WindowOpen =>
                 /\ ScanRecord(r).finger_id = ZeroId
                 /\ ScanRecord(r).operation_type = last_finger_operation
    BY DEF MsgInv, MsgTypeOK, NoHalfEvent, ScanRecord, MsgData, WindowOpen, Ids,
           TypeOfOperation, Operations, NoOperation, Store, Take

\* Generating from a well typed record: the flags are down, the record keeps
\* all but its type, and what is uploaded is the record itself.
LEMMA GenerateEffect ==
    ASSUME NEW m \in MsgData, msg_generate_and_send(m)
    PROVE  /\ finger_received' = FALSE /\ rfid_received' = FALSE
           /\ current_msg' = [m EXCEPT !.msg_type = "NONE"]
           /\ m.msg_type \in {"STORE", "TAKE"} => onenet_upload_event(m)
           /\ m.msg_type \notin {"STORE", "TAKE"} => outbox' = outbox
<1>1. m.finger_id # InvalidId
    BY MsgConstants DEF MsgData, Ids
<1>2. QED
    BY <1>1 DEF msg_generate_and_send, msg_clear_flags

\* The age of the last match stays in the range of the counter, and exact
\* while it is below the window.
LEMMA AdvanceAge ==
    ASSUME MsgInv, NEW n \in Nat, Advance(n)
    PROVE  /\ since_finger' \in 0 .. TickMod - 1
           /\ elapsed' \in 0 .. Window
           /\ elapsed' < Window => elapsed < Window /\ elapsed' = elapsed + n
           /\ elapsed' < Window /\ since_finger = elapsed => since_finger' = elapsed'
<1> USE MsgConstants DEF MsgInv, MsgTypeOK
<1>1. elapsed' = Capped(elapsed + n) /\ since_finger' = (since_finger + n) % TickMod
    BY DEF Advance
<1>2. since_finger' \in 0 .. TickMod - 1
    BY <1>1
<1>3. /\ elapsed' \in 0 .. Window
      /\ elapsed' < Window => elapsed < Window /\ elapsed' = elapsed + n
    BY <1>1 DEF Capped
<1>4. ASSUME elapsed' < Window, since_finger = elapsed
      PROVE  since_finger' = elapsed'
    <2>1. elapsed + n \in 0 .. TickMod - 1
        BY <1>3, <1>4
    <2>2. (elapsed + n) % TickMod = elapsed + n
        BY <2>1
    <2>3. QED
        BY <1>1, <1>3, <1>4, <2>2
<1>5. QED
    BY <1>2, <1>3, <1>4

--------------------------------------------------------------------------------
(* The invariant *)

\* Nothing is pending before msg_module_init.
LEMMA InitHolds == MsgInit => MsgInv
<1> SUFFICES ASSUME MsgInit PROVE MsgInv
    OBVIOUS
<1>1. ZeroMsg \in MsgData /\ ZeroMsg.msg_type = "NONE"
    BY MsgConstants DEF ZeroMsg, MsgData, Ids, Operations, Store
<1>2. MsgTypeOK
    <2>1. since_finger \in 0 .. TickMod - 1 /\ elapsed \in 0 .. Window
        BY MsgConstants DEF MsgInit
    <2>2. outbox \in Seq(Event)
        BY DEF MsgInit
    <2>3. QED
        BY <1>1, <2>1, <2>2 DEF MsgInit, MsgTypeOK
<1>3. NoHalfEvent /\ AgeIsExact
    BY <1>1, MsgConstants DEF MsgInit, NoHalfEvent, AgeIsExact
<1>4. QED
    BY <1>2, <1>3 DEF MsgInv

\* A match is stored, or sent at once if a scan were pending.
LEMMA FingerHandlerKeepsInv ==
    ASSUME MsgInv, NEW id \in Ids, NEW op \in Operations, finger_callback_handler(id, op)
    PROVE  MsgInv'
<1> DEFINE m == [current_msg EXCEPT !.finger_id = id, !.operation_type = op,
                                    !.msg_type = TypeOfOperation(op)]
<1> USE MsgConstants DEF MsgInv, MsgTypeOK
<1>1. /\ msg_initialized /\ msg_initialized' = msg_initialized
      /\ last_finger_operation' = op /\ since_finger' = 0 /\ elapsed' = 0
    BY DEF finger_callback_handler
<1>2. ~rfid_received
    BY DEF NoHalfEvent
<1>3. /\ finger_received' = TRUE /\ current_msg' = m
      /\ rfid_received' = rfid_received /\ outbox' = outbox
    BY <1>2 DEF finger_callback_handler
<1>4. m \in MsgData /\ m.operation_type = op /\ m.msg_type = TypeOfOperation(op)
    BY DEF MsgData, TypeOfOperation
<1>5. MsgTypeOK'
    BY <1>1, <1>3, <1>4
<1>6. NoHalfEvent'
    BY <1>1, <1>2, <1>3, <1>4 DEF NoHalfEvent
<1>7. AgeIsExact'
    BY <1>1 DEF AgeIsExact
<1>8. QED
    BY <1>5, <1>6, <1>7

\* Whatever a scan finds, the record is as empty afterwards as it can be.
LEMMA ScanHandlerKeepsInv ==
    ASSUME MsgInv, NEW r \in Results, rfid_callback_handler(r)
    PROVE  MsgInv'
<1> DEFINE m == ScanRecord(r)
<1>1. m \in MsgData
    BY ScanRecordType
<1>2. /\ msg_initialized' = msg_initialized
      /\ last_finger_operation' = last_finger_operation
      /\ since_finger' = since_finger /\ elapsed' = elapsed
      /\ msg_generate_and_send(m)
    BY DEF rfid_callback_handler
<1>3. /\ finger_received' = FALSE /\ rfid_received' = FALSE
      /\ current_msg' = [m EXCEPT !.msg_type = "NONE"]
      /\ m.msg_type \in {"STORE", "TAKE"} => onenet_upload_event(m)
      /\ m.msg_type \notin {"STORE", "TAKE"} => outbox' = outbox
    BY <1>1, <1>2, GenerateEffect
<1>4. current_msg' \in MsgData /\ current_msg'.msg_type = "NONE"
    BY <1>1, <1>3 DEF MsgData
<1>5. outbox' \in Seq(Event)
    BY <1>1, <1>3, UploadType DEF MsgInv, MsgTypeOK
<1>6. MsgTypeOK'
    BY <1>2, <1>3, <1>4, <1>5 DEF MsgInv, MsgTypeOK
<1>7. NoHalfEvent' /\ AgeIsExact'
    BY <1>2, <1>3, <1>4 DEF MsgInv, NoHalfEvent, AgeIsExact
<1>8. QED
    BY <1>6, <1>7 DEF MsgInv

\* Every step of the module keeps the invariant.
LEMMA NextKeepsInv ==
    ASSUME MsgInv, [MsgNext]_msgVars
    PROVE  MsgInv'
<1> USE DEF MsgInv
<1>1. ASSUME NEW id \in Ids, NEW op \in Operations, finger_callback_handler(id, op)
      PROVE  MsgInv'
    BY <1>1, FingerHandlerKeepsInv
<1>2. ASSUME NEW r \in Results, rfid_callback_handler(r)
      PROVE  MsgInv'
    BY <1>2, ScanHandlerKeepsInv
<1>3. CASE msg_module_init
    <2>1. ZeroMsg \in MsgData /\ ZeroMsg.msg_type = "NONE"
        BY MsgConstants DEF ZeroMsg, MsgData, Ids, Operations, Store
    <2>2. QED
        BY <1>3, <2>1 DEF msg_module_init, MsgTypeOK, NoHalfEvent, AgeIsExact
<1>4. ASSUME NEW op \in Operations, msg_test_finger(op)
      PROVE  MsgInv'
    BY <1>1, <1>4 DEF msg_test_finger, Ids
<1>5. ASSUME NEW r \in Results, msg_test_rfid(r)
      PROVE  MsgInv'
    BY <1>2, <1>5 DEF msg_test_rfid
<1>6. CASE msg_send_test
    <2>1. [ZeroMsg EXCEPT !.msg_type = "STORE"] \in MsgData
        BY MsgConstants DEF ZeroMsg, MsgData, Ids, Operations, Store
    <2>2. outbox' \in Seq(Event)
        BY <1>6, <2>1, UploadType DEF msg_send_test, MsgTypeOK
    <2>3. QED
        BY <1>6, <2>2 DEF msg_send_test, MsgTypeOK, NoHalfEvent, AgeIsExact
<1>7. CASE msg_clear
    <2>1. /\ [ZeroMsg EXCEPT !.msg_type = "NONE"] \in MsgData
          /\ [ZeroMsg EXCEPT !.msg_type = "NONE"].msg_type = "NONE"
        BY MsgConstants DEF ZeroMsg, MsgData, Ids, Operations, Store
    <2>2. QED
        BY <1>7, <2>1 DEF msg_clear, msg_clear_flags, MsgTypeOK, NoHalfEvent, AgeIsExact
<1>8. CASE Advance(1)
    <2>1. since_finger' \in 0 .. TickMod - 1 /\ elapsed' \in 0 .. Window
        BY <1>8, AdvanceAge
    <2>2. AgeIsExact'
        BY <1>8, AdvanceAge DEF Advance, AgeIsExact
    <2>3. QED
        BY <1>8, <2>1, <2>2 DEF Advance, MsgTypeOK, NoHalfEvent
<1>9. CASE Deliver
    BY <1>9 DEF Deliver, MsgTypeOK, NoHalfEvent, AgeIsExact
<1>10. CASE UNCHANGED msgVars
    BY <1>10 DEF msgVars, MsgTypeOK, NoHalfEvent, AgeIsExact
<1>11. QED
    BY <1>1, <1>2, <1>3, <1>4, <1>5, <1>6, <1>7, <1>8, <1>9, <1>10 DEF MsgNext

LEMMA InvHolds == MsgSpec => []MsgInv
    BY InitHolds, NextKeepsInv, PTL DEF MsgSpec

\* The flags and the shared record are well typed after any sequence of
\* matches, scans, console commands and ticks.
THEOREM MsgTypeCorrect == MsgSpec => []MsgTypeOK
<1>1. MsgInv => MsgTypeOK
    BY DEF MsgInv
<1>2. QED
    BY <1>1, InvHolds, PTL

\* No handler of msg.c leaves half an event behind.
THEOREM NoHalfEventEver == MsgSpec => []NoHalfEvent
<1>1. MsgInv => NoHalfEvent
    BY DEF MsgInv
<1>2. QED
    BY <1>1, InvHolds, PTL

\* A match less than the window's length old is seen by the scan (msg.c:80-81)
\* wherever the counter stands, for every counter longer than the window.
THEOREM RecentMatchAlwaysSeen == MsgSpec => []RecentMatchIsSeen
<1>1. MsgInv => RecentMatchIsSeen
    BY DEF MsgInv, AgeIsExact, RecentMatchIsSeen, WindowOpen
<1>2. QED
    BY <1>1, InvHolds, PTL

--------------------------------------------------------------------------------
(* The module implements the event log *)

\* An upload that fails is a report that is lost.
LEMMA UploadIsSend ==
    ASSUME NEW m \in MsgData, onenet_upload_event(m)
    PROVE  Log!Send(Log!Report(m.finger_id, m.operation_type, m.rfid_result))
    BY DEF onenet_upload_event, Log!Send, Log!Report, EventOf

\* The match that waits is an entry of the log, told apart from NoEntry.
LEMMA WaitingMatchIsEntry ==
    ASSUME MsgInv
    PROVE  [user |-> current_msg.finger_id, operation |-> current_msg.operation_type] # NoEntry
    BY NoEntryIsNoEntry DEF MsgInv, MsgTypeOK, MsgData

\* A match opens an entry, or replaces the one that still waits.
LEMMA MatchAuthenticates ==
    ASSUME MsgInv, NEW id \in Ids, NEW op \in Operations, finger_callback_handler(id, op)
    PROVE  Log!Authenticate(id, op)
<1>1. /\ last_finger_operation' = op /\ finger_received' = TRUE /\ outbox' = outbox
      /\ current_msg' = [current_msg EXCEPT !.finger_id = id, !.operation_type = op,
                                            !.msg_type = TypeOfOperation(op)]
    BY DEF MsgInv, NoHalfEvent, finger_callback_handler
<1>2. current_msg'.finger_id = id /\ current_msg'.operation_type = op
    BY <1>1 DEF MsgInv, MsgTypeOK, MsgData
<1>3. QED
    BY <1>1, <1>2 DEF Log!Authenticate

\* A scan closes the entry that is open, is reported without a user inside the
\* window, and otherwise changes nothing the log knows of.
LEMMA ScanClosesOrReports ==
    ASSUME MsgInv, NEW r \in Results, rfid_callback_handler(r)
    PROVE  Log!CloseEntry(r) \/ Log!ReportUnattributed(r) \/ UNCHANGED Log!logVars
<1> DEFINE m == ScanRecord(r)
<1>1. m \in MsgData /\ m.rfid_result = r
    BY ScanRecordType
<1>2. /\ last_finger_operation' = last_finger_operation
      /\ msg_generate_and_send(m)
    BY DEF rfid_callback_handler
<1>3. /\ finger_received' = FALSE
      /\ m.msg_type \in {"STORE", "TAKE"} => onenet_upload_event(m)
      /\ m.msg_type \notin {"STORE", "TAKE"} => outbox' = outbox
    BY <1>1, <1>2, GenerateEffect
<1>4. CASE finger_received
    <2>1. Log!Send(Log!Report(current_msg.finger_id, current_msg.operation_type, r))
        BY <1>1, <1>3, <1>4, ScanRecordType, UploadIsSend
    <2>2. QED
        BY <1>2, <1>3, <1>4, <2>1, WaitingMatchIsEntry DEF Log!CloseEntry
<1>5. CASE ~finger_received /\ WindowOpen
    <2>1. Log!Send(Log!Report(ZeroId, last_finger_operation, r))
        BY <1>1, <1>3, <1>5, ScanRecordType, UploadIsSend
    <2>2. QED
        BY <1>2, <1>3, <1>5, <2>1 DEF Log!ReportUnattributed, WindowOpen
<1>6. CASE ~finger_received /\ ~WindowOpen
    BY <1>1, <1>2, <1>3, <1>6, ScanRecordType DEF Log!logVars
<1>7. QED
    BY <1>4, <1>5, <1>6

\* Every step of the module is a step of the log or changes nothing of it.
LEMMA NextRefinesLog ==
    ASSUME MsgInv, [MsgNext]_msgVars
    PROVE  [Log!LogNext]_(Log!logVars)
<1>1. ASSUME NEW id \in Ids, NEW op \in Operations, finger_callback_handler(id, op)
      PROVE  Log!LogNext
    BY <1>1, MatchAuthenticates DEF Log!LogNext
<1>2. ASSUME NEW r \in Results, rfid_callback_handler(r)
      PROVE  [Log!LogNext]_(Log!logVars)
    BY <1>2, ScanClosesOrReports DEF Log!LogNext
<1>3. CASE msg_module_init
    BY <1>3 DEF msg_module_init, Log!LogNext, Log!Forget
<1>4. ASSUME NEW op \in Operations, msg_test_finger(op)
      PROVE  Log!LogNext
    BY <1>1, <1>4 DEF msg_test_finger, Ids
<1>5. ASSUME NEW r \in Results, msg_test_rfid(r)
      PROVE  [Log!LogNext]_(Log!logVars)
    BY <1>2, <1>5 DEF msg_test_rfid
<1>6. CASE msg_send_test
    <2> DEFINE m == [ZeroMsg EXCEPT !.msg_type = "STORE"]
    <2>1. /\ m \in MsgData /\ m.finger_id = ZeroId
          /\ m.operation_type = Store /\ m.rfid_result = Item1
        BY MsgConstants DEF ZeroMsg, MsgData, Ids, Operations, Store
    <2>2. Log!Send(Log!Report(ZeroId, Store, Item1))
        BY <1>6, <2>1, UploadIsSend DEF msg_send_test
    <2>3. Log!TestReport(Log!Report(ZeroId, Store, Item1))
        BY <1>6, <2>2 DEF msg_send_test, Log!TestReport
    <2>4. QED
        BY <2>3, MsgConstants DEF Log!LogNext, Operations, Store
<1>7. CASE msg_clear
    BY <1>7 DEF msg_clear, msg_clear_flags, Log!LogNext, Log!Forget
<1>8. CASE Advance(1)
    BY <1>8 DEF Advance, Log!logVars
<1>9. CASE Deliver
    BY <1>9 DEF Deliver, Log!LogNext, Log!Deliver
<1>10. CASE UNCHANGED msgVars
    BY <1>10 DEF msgVars, Log!logVars
<1>11. QED
    BY <1>1, <1>2, <1>3, <1>4, <1>5, <1>6, <1>7, <1>8, <1>9, <1>10 DEF MsgNext

\* The handlers of msg.c implement the event log: no report carries a user of
\* one match with the operation of another or with the item of a later scan,
\* and no match is reported twice under its user.
THEOREM MsgImplementsLog == MsgSpec => UploadsImplementLog
<1>1. MsgInit => Log!LogInit
    BY DEF MsgInit, Log!LogInit
<1>2. MsgInv /\ [MsgNext]_msgVars => [Log!LogNext]_(Log!logVars)
    BY NextRefinesLog
<1>3. QED
    BY <1>1, <1>2, InvHolds, PTL DEF MsgSpec, UploadsImplementLog, Log!LogSpec
================================================================================
