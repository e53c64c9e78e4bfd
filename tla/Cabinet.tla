--------------------------------- MODULE Cabinet ---------------------------------
(***************************************************************************)
(* The finger thread and the message module together, in the field: main   *)
(* starts both, the keys drive the thread, and the thread calls the two    *)
(* handlers of msg.c, with the match it acted on and with what a scan      *)
(* found. Console commands are left to Msg.                                *)
(***************************************************************************)
EXTENDS Finger

CONSTANTS ZeroId, Results, Item1, TickMod, Window, MaxOutbox, NoEntry, \* as in Msg
          ItemResults,   \* the results that name an item
          CountdownTicks \* rt_tick_from_millisecond(10000), finger.c:179-187

VARIABLES current_msg, msg_initialized, finger_received, rfid_received,
          last_finger_operation, since_finger, elapsed, outbox, \* as in Msg
          holder,   \* history: the match last reported, who and for what
          answer    \* history: what scans since that match found: "none yet",
                    \* "no item", or "item"

Msg == INSTANCE Msg

\* The constants are as Msg wants them; ten seconds are not less than the five
\* of the window, and both together fit into the counter.
ASSUME CabinetConstants ==
    /\ InvalidId \notin FingerIds \cup {ZeroId}
    /\ Item1 \in Results /\ ItemResults \subseteq Results
    /\ TickMod \in Nat /\ Window \in Nat \ {0} /\ CountdownTicks \in Nat
    /\ Window <= CountdownTicks /\ Window + CountdownTicks <= TickMod
    /\ NoEntry \notin [user : FingerIds, operation : {0, 1}]

msgVars == <<current_msg, msg_initialized, finger_received, rfid_received,
             last_finger_operation, since_finger, elapsed, outbox>>
history == <<holder, answer>>
cabinetVars == <<fingerVars, msgVars, history>>

CabinetInit ==
    /\ FingerInit
    /\ Msg!MsgInit
    /\ holder = NoEntry
    /\ answer = "none yet"

--------------------------------------------------------------------------------
\* main calls msg_module_init before it starts the thread.
Boot ==
    /\ Msg!msg_module_init
    /\ UNCHANGED <<fingerVars, history>>

StartThread ==
    /\ msg_initialized
    /\ finger_thread_start
    /\ UNCHANGED <<msgVars, history>>

\* Assumed here: no scan comes TickMod ticks (49 days) or more after the match
\* it follows. Msg alone is checked without this assumption.
TimePasses(n) ==
    IF since_finger + n < TickMod THEN Msg!Advance(n) ELSE UNCHANGED msgVars

ThreadWaits == TimePasses(1) /\ since_finger' # since_finger /\ UNCHANGED <<fingerVars, history>>

\* Mutant of Work: the scan begins without a countdown.
WorkWithoutCountdown ==
    /\ MainLoop \/ Verification \/ Door
    /\ UNCHANGED <<msgVars, history>>

\* Steps of the thread that do not call the message module. The countdown lasts
\* ten seconds.
Work ==
    /\ MainLoop \/ Verification \/ Door
    /\ IF At("countdown") THEN TimePasses(CountdownTicks) ELSE UNCHANGED msgVars
    /\ UNCHANGED history

\* trigger_finger_callback
MatchIsReported ==
    /\ ReportMatch
    /\ Msg!finger_callback_handler(finger_id, operation_type)
    /\ holder' = [user |-> finger_id, operation |-> operation_type]
    /\ answer' = "none yet"

\* rfid_scan_once: a reply is parsed and reported, whatever it says.
ScanIsReported ==
    /\ Scan
    /\ \E r \in Results :
          /\ Msg!rfid_callback_handler(r)
          /\ answer' = IF answer = "item" \/ r \in ItemResults THEN "item" ELSE "no item"
    /\ UNCHANGED holder

\* Mutant of ScanFails: the failure is reported like a result.
ScanFailureIsReported ==
    /\ Scan
    /\ \E r \in Results \ ItemResults : Msg!rfid_callback_handler(r)
    /\ UNCHANGED history

\* The command could not be sent, or no byte came back: no callback.
ScanFails ==
    /\ Scan
    /\ UNCHANGED <<msgVars, history>>

UserOrSensor == Surroundings /\ UNCHANGED <<msgVars, history>>

EventIsSent == Msg!Deliver /\ UNCHANGED <<fingerVars, history>>

CabinetNext ==
    \/ Boot \/ StartThread \/ ThreadWaits \/ Work
    \/ MatchIsReported \/ ScanIsReported \/ ScanFails
    \/ UserOrSensor \/ EventIsSent

CabinetSpec == CabinetInit /\ [][CabinetNext]_cabinetVars

--------------------------------------------------------------------------------
(* Properties *)

CabinetTypeOK ==
    /\ FingerTypeOK
    /\ Msg!MsgTypeOK
    /\ holder \in [user : FingerIds, operation : {0, 1}] \cup {NoEntry}
    /\ answer \in {"none yet", "no item", "item"}

\* A report leaves the cabinet only while its door is open, and it names the
\* user who was matched last and what that user pressed, even when somebody
\* asked for another operation since and was turned away.
ReportsNameTheHolder ==
    [][Len(outbox') > Len(outbox) =>
          /\ bolt = "open" /\ is_unlocked
          /\ holder # NoEntry
          /\ outbox'[Len(outbox')].user = holder.user
          /\ outbox'[Len(outbox')].operation = holder.operation]_cabinetVars

\* A match is reported at most once: the five-second window of msg.c:80 never
\* adds a report, because a scan takes ten seconds to begin (finger.c:179).
OneReportPerMatch ==
    [][Len(outbox') > Len(outbox) => answer = "none yet"]_cabinetVars

\* A match waits for its scan through locking, failed verifications, error
\* screens and scans that got no reply: until a scan answers it, the next scan
\* is joined with it.
MatchWaitsForScan ==
    holder # NoEntry /\ answer = "none yet" =>
        /\ finger_received
        /\ current_msg.finger_id = holder.user
        /\ current_msg.operation_type = holder.operation

\* README.md:11: user, operation and item are uploaded together; so while no
\* item was found since the match, the match waits for the scan about to be
\* taken. The screen itself asks for another scan when one found no tag
\* (finger.c:210).
ItemScanHasItsMatch ==
    pc = "scan" /\ holder # NoEntry /\ answer # "item" => finger_received
==================================================================================
