---------------------------------- MODULE Msg ----------------------------------
(***************************************************************************)
(* applications/msg.c: the module that joins a fingerprint match and an    *)
(* RFID scan into one event and hands it to OneNET. Each action is one     *)
(* handler run to its end; the handlers run in the finger thread, and from *)
(* the console when an operator types a test command.                      *)
(*                                                                         *)
(* The tick counter appears only through rt_tick_get() - last_finger_time, *)
(* the one thing the module computes from it, modulo the counter's range.  *)
(***************************************************************************)
EXTENDS Naturals, Sequences

CONSTANTS FingerIds,  \* ids the sensor reports for an enrolled finger
          ZeroId,     \* id 0x0000, also written when the user is not known
          InvalidId,  \* id 0xFFFF
          Results,    \* rfid_result_t
          Item1,      \* RFID_RESULT_ITEM_1, the value 0 of rfid_result_t
          TickMod,    \* values of rt_tick_t (2^32 in the program)
          Window,     \* rt_tick_from_millisecond(5000)
          MaxOutbox,  \* bound: events the MQTT client holds
          NoEntry     \* names the absence of an entry in EventLog

ASSUME MsgConstants ==
    /\ InvalidId \notin FingerIds \cup {ZeroId}
    /\ Item1 \in Results
    /\ TickMod \in Nat /\ Window \in Nat /\ 0 < Window /\ Window < TickMod
    /\ MaxOutbox \in Nat \ {0}

VARIABLES current_msg,
          msg_initialized,
          finger_received,
          rfid_received,
          last_finger_operation,
          since_finger, \* rt_tick_get() - last_finger_time, modulo TickMod
          elapsed,      \* history: ticks since the last match, at most Window
          outbox        \* events OneNET accepted, not yet sent

msgVars == <<current_msg, msg_initialized, finger_received, rfid_received,
             last_finger_operation, since_finger, elapsed, outbox>>

Store == 0
Take == 1
Operations == {Store, Take}
NoOperation == 255

Ids == FingerIds \cup {ZeroId}

MsgData == [msg_type : {"NONE", "STORE", "TAKE", "SCAN"},
            finger_id : Ids, operation_type : Operations, rfid_result : Results]

Event == [user : Ids, operation : Operations, item : Results]

ASSUME NoEntryIsNoEntry == NoEntry \notin [user : Ids, operation : Operations]

\* memset(&current_msg, 0, ...): every field 0, which is ITEM_1 as a result.
ZeroMsg == [msg_type |-> "NONE", finger_id |-> ZeroId,
            operation_type |-> Store, rfid_result |-> Item1]

TypeOfOperation(op) == IF op = Store THEN "STORE" ELSE "TAKE"

\* The fields build_onenet_json reads from the record.
EventOf(m) == [user |-> m.finger_id, operation |-> m.operation_type,
               item |-> m.rfid_result]

MsgInit ==
    /\ current_msg = ZeroMsg
    /\ msg_initialized = FALSE
    /\ finger_received = FALSE
    /\ rfid_received = FALSE
    /\ last_finger_operation = NoOperation
    /\ since_finger = 0
    /\ elapsed = Window
    /\ outbox = <<>>

--------------------------------------------------------------------------------
\* The upload may fail: no memory for the JSON text, client not connected,
\* its pipe full. The caller only logs that.
onenet_upload_event(m) ==
    \/ Len(outbox) < MaxOutbox /\ outbox' = Append(outbox, EventOf(m))
    \/ UNCHANGED outbox

\* Mutant of msg_clear_flags: the type is not reset.
ClearKeepsType(m) ==
    finger_received' = FALSE /\ rfid_received' = FALSE /\ current_msg' = m

\* Leaves the record m as it is but for its type.
msg_clear_flags(m) ==
    /\ finger_received' = FALSE
    /\ rfid_received' = FALSE
    /\ current_msg' = [m EXCEPT !.msg_type = "NONE"]

\* A scan is only printed; a store or take is uploaded, whatever comes of it.
msg_generate_and_send(m) ==
    IF m.msg_type \in {"STORE", "TAKE"}
    THEN LET valid == IF m.finger_id = InvalidId
                      THEN [m EXCEPT !.finger_id = ZeroId] ELSE m
         IN onenet_upload_event(valid) /\ msg_clear_flags(valid)
    ELSE UNCHANGED outbox /\ msg_clear_flags(m)

\* Mutant of finger_callback_handler: last_finger_time is not set.
CallbackKeepsTime(id, op) ==
    /\ msg_initialized
    /\ last_finger_operation' = op
    /\ elapsed' = 0
    /\ finger_received' = TRUE
    /\ current_msg' = [current_msg EXCEPT !.finger_id = id, !.operation_type = op,
                                          !.msg_type = TypeOfOperation(op)]
    /\ UNCHANGED <<rfid_received, outbox, since_finger, msg_initialized>>

\* Mutant of finger_callback_handler: a match that still waits is kept.
CallbackKeepsMatch(id, op) ==
    /\ msg_initialized
    /\ last_finger_operation' = op
    /\ since_finger' = 0
    /\ elapsed' = 0
    /\ finger_received' = TRUE
    /\ current_msg' = IF finger_received THEN current_msg
                      ELSE [current_msg EXCEPT !.finger_id = id, !.operation_type = op,
                                               !.msg_type = TypeOfOperation(op)]
    /\ UNCHANGED <<rfid_received, outbox, msg_initialized>>

finger_callback_handler(id, op) ==
    LET m == [current_msg EXCEPT !.finger_id = id, !.operation_type = op,
                                 !.msg_type = TypeOfOperation(op)]
    IN  /\ msg_initialized
        /\ last_finger_operation' = op
        /\ since_finger' = 0
        /\ elapsed' = 0
        /\ IF rfid_received
           THEN msg_generate_and_send(m)
           ELSE /\ finger_received' = TRUE
                /\ current_msg' = m
                /\ UNCHANGED <<rfid_received, outbox>>
        /\ UNCHANGED msg_initialized

\* Mutant of WindowOpen: 0xFF is taken for an operation.
WindowWithoutMatch == since_finger < Window

\* "Within 5 seconds of a fingerprint operation", as the code computes it.
WindowOpen == last_finger_operation # NoOperation /\ since_finger < Window

\* Mutant of ScanRecord: the window branch leaves finger_id as it was.
ScanRecordKeepsId(r) ==
    LET m == [current_msg EXCEPT !.rfid_result = r]
    IN  IF finger_received THEN m
        ELSE IF WindowOpen
        THEN [m EXCEPT !.msg_type = TypeOfOperation(last_finger_operation),
                       !.operation_type = last_finger_operation]
        ELSE [m EXCEPT !.msg_type = "SCAN"]

\* The record a scan with result r is sent as.
ScanRecord(r) ==
    LET m == [current_msg EXCEPT !.rfid_result = r]
    IN  IF finger_received THEN m
        ELSE IF WindowOpen
        THEN [m EXCEPT !.msg_type = TypeOfOperation(last_finger_operation),
                       !.operation_type = last_finger_operation,
                       !.finger_id = ZeroId]
        ELSE [m EXCEPT !.msg_type = "SCAN"]

rfid_callback_handler(r) ==
    /\ msg_initialized
    /\ msg_generate_and_send(ScanRecord(r))
    /\ UNCHANGED <<msg_initialized, last_finger_operation, since_finger, elapsed>>

\* last_finger_time is 0 already: no handler ran before this.
msg_module_init ==
    /\ ~msg_initialized
    /\ current_msg' = ZeroMsg
    /\ finger_received' = FALSE
    /\ rfid_received' = FALSE
    /\ last_finger_operation' = NoOperation
    /\ msg_initialized' = TRUE
    /\ UNCHANGED <<since_finger, elapsed, outbox>>

--------------------------------------------------------------------------------
(* Console commands *)

msg_test_finger(op) == finger_callback_handler(ZeroId, op)

msg_test_rfid(r) == rfid_callback_handler(r)

\* msg_process_and_send of a record of its own: the module's state stays.
msg_send_test ==
    /\ msg_initialized
    /\ onenet_upload_event([ZeroMsg EXCEPT !.msg_type = "STORE"])
    /\ UNCHANGED <<current_msg, msg_initialized, finger_received, rfid_received,
                   last_finger_operation, since_finger, elapsed>>

\* Works before msg_module_init too. last_finger_time becomes 0, so that what
\* is left of it is the tick counter itself, wherever that stands.
msg_clear ==
    /\ msg_clear_flags(ZeroMsg)
    /\ last_finger_operation' = NoOperation
    /\ since_finger' \in 0 .. TickMod - 1
    /\ UNCHANGED <<msg_initialized, elapsed, outbox>>

--------------------------------------------------------------------------------
(* The tick counter and the MQTT client *)

Capped(n) == IF n < Window THEN n ELSE Window

Advance(n) ==
    /\ since_finger' = (since_finger + n) % TickMod
    /\ elapsed' = Capped(elapsed + n)
    /\ UNCHANGED <<current_msg, msg_initialized, finger_received, rfid_received,
                   last_finger_operation, outbox>>

Deliver ==
    /\ outbox # <<>>
    /\ outbox' = Tail(outbox)
    /\ UNCHANGED <<current_msg, msg_initialized, finger_received, rfid_received,
                   last_finger_operation, since_finger, elapsed>>

MsgNext ==
    \/ \E id \in Ids, op \in Operations : finger_callback_handler(id, op)
    \/ \E r \in Results : rfid_callback_handler(r)
    \/ msg_module_init
    \/ \E op \in Operations : msg_test_finger(op)
    \/ \E r \in Results : msg_test_rfid(r)
    \/ msg_send_test
    \/ msg_clear
    \/ Advance(1)
    \/ Deliver

MsgSpec == MsgInit /\ [][MsgNext]_msgVars

--------------------------------------------------------------------------------
(* Properties *)

MsgTypeOK ==
    /\ current_msg \in MsgData
    /\ msg_initialized \in BOOLEAN
    /\ finger_received \in BOOLEAN
    /\ rfid_received \in BOOLEAN
    /\ last_finger_operation \in Operations \cup {NoOperation}
    /\ since_finger \in 0 .. TickMod - 1
    /\ elapsed \in 0 .. Window
    /\ outbox \in Seq(Event)

\* No handler leaves half an event behind: between handlers no scan is pending
\* (msg.c:51 never sees one), and the record has a store or take type exactly
\* while a match waits, which is then the match the window remembers.
NoHalfEvent ==
    /\ ~rfid_received
    /\ finger_received =>
          /\ msg_initialized
          /\ last_finger_operation = current_msg.operation_type
          /\ current_msg.msg_type = TypeOfOperation(current_msg.operation_type)
    /\ ~finger_received => current_msg.msg_type = "NONE"
    /\ last_finger_operation # NoOperation => msg_initialized

\* A match less than Window ticks old is seen by the scan, wherever the tick
\* counter stands and even when it wraps between the two (msg.c:80-81).
RecentMatchIsSeen ==
    last_finger_operation # NoOperation /\ elapsed < Window => WindowOpen

\* The converse, as the comment at msg.c:82 states it: a scan with no match
\* waiting takes the window branch (the else-if at msg.c:80-81) only when a
\* fingerprint operation lies less than 5 seconds back.
WindowIsRecent == ~finger_received /\ WindowOpen => elapsed < Window

Log == INSTANCE EventLog WITH
    Nobody <- ZeroId, Items <- Results,
    entry <- IF finger_received
             THEN [user |-> current_msg.finger_id,
                   operation |-> current_msg.operation_type]
             ELSE NoEntry,
    remembered <- last_finger_operation

\* The flags and the shared record implement the event log: a report carries
\* user, operation and item of one match and of the first scan after it, a
\* match is reported at most once under its user, and what is left in the
\* record from earlier events never reaches the cloud.
UploadsImplementLog == Log!LogSpec
================================================================================
