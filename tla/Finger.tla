--------------------------------- MODULE Finger ---------------------------------
(***************************************************************************)
(* applications/finger.c: the finger thread, which reads the four keys,    *)
(* talks to the fingerprint sensor and drives the servo, with its start    *)
(* and its stop. A step of the thread runs from one place where it can be  *)
(* suspended (a delay, a call of the display) to the next; pc names the    *)
(* place and k the key the main loop is looking at.                        *)
(*                                                                         *)
(* Left out: the LED, the wording of messages, and the two variables the   *)
(* file only ever writes (is_locked, unlock_rfid_mode). Time appears as    *)
(* the choice between an answer and a timeout.                             *)
(***************************************************************************)
EXTENDS Naturals, Sequences, FiniteSets, Lcd

CONSTANTS FingerIds,    \* ids of enrolled fingers
          InvalidId,    \* id 0xFFFF
          RetryCount,   \* FINGER_VERIFY_RETRY_COUNT
          MaxPressed,   \* bound: keys held down at once
          MaxRx,        \* bound: packets the receive buffer holds
          MaxStops      \* bound: calls of finger_thread_stop

ASSUME FingerConstants ==
    /\ InvalidId \notin FingerIds
    /\ RetryCount \in Nat \ {0}
    /\ MaxPressed \in Nat /\ MaxRx \in Nat /\ MaxStops \in Nat

ASSUME FingerMessages ==
    {"Please place", "Finger Failed", "Lock Failed", "RFID Scanning",
     "Scan Result", "Press KEY2"} \subseteq Messages

VARIABLES pc, k,                 \* where the finger thread is
          finger_thread,         \* the handle is not RT_NULL
          finger_thread_running,
          stopper,               \* "idle", "waiting" in finger_thread_stop, "asserted"
          stops,                 \* calls of finger_thread_stop so far
          rs485_ready,           \* rs485_rx_sem is a registered object
          servo_pwm,             \* the PWM device was found
          bolt,                  \* where the servo last moved the bolt
          is_unlocked,
          finger_verifying,
          operation_type,        \* 0 store, 1 take
          attempt, finger_id,    \* locals of finger_receive_response
          pressed,               \* the keys held down
          zw_busy,               \* the sensor is working on a command
          rx,                    \* packets in the receive buffer
          verdicts               \* history: fingers matched since the session began

threadVars == <<pc, k>>
lifeVars == <<finger_thread, finger_thread_running, stopper, stops, rs485_ready>>
doorVars == <<servo_pwm, bolt, is_unlocked>>
sessionVars == <<finger_verifying, operation_type, attempt, finger_id>>
sensorVars == <<zw_busy, rx, verdicts>>
fingerVars == <<threadVars, lifeVars, doorVars, sessionVars, sensorVars, pressed, lcdVars>>

Keys == 0 .. 3

\* Packets by what the parser tells apart: a final match with its id, a packet
\* of an intermediate step, a failure code, and anything whose header, length
\* or checksum is wrong.
Packet == [kind : {"match"}, id : FingerIds \cup {InvalidId}]
          \cup [kind : {"step", "failure", "damaged"}, id : {InvalidId}]

\* Mutant of parse_fingerprint_packet: id 0xFFFF is taken for a user.
ParseAcceptsInvalidId(p) ==
    IF p.kind = "match" THEN "MATCH_SUCCESS"
    ELSE IF p.kind = "failure" THEN "MATCH_FAILED" ELSE "OTHER"

parse_fingerprint_packet(p) ==
    CASE p.kind = "match" /\ p.id # InvalidId -> "MATCH_SUCCESS"
      [] p.kind = "match" /\ p.id = InvalidId -> "MATCH_FAILED"
      [] p.kind = "failure" -> "MATCH_FAILED"
      [] OTHER -> "OTHER"

\* The i-th packet in the buffer is the first one that settles the attempt.
Settles(i) ==
    /\ parse_fingerprint_packet(rx[i]) # "OTHER"
    /\ \A j \in 1 .. i - 1 : parse_fingerprint_packet(rx[j]) = "OTHER"

FingerInit ==
    /\ pc = "none" /\ k = 0
    /\ finger_thread = FALSE /\ finger_thread_running = FALSE
    /\ stopper = "idle" /\ stops = 0
    /\ rs485_ready = FALSE
    /\ servo_pwm \in BOOLEAN
    /\ bolt \in {"locked", "open"}
    /\ is_unlocked = FALSE
    /\ finger_verifying = FALSE /\ operation_type = 0
    /\ attempt = 1 /\ finger_id = InvalidId
    /\ pressed = {}
    /\ zw_busy = FALSE /\ rx = <<>> /\ verdicts = {}
    /\ LcdInit

--------------------------------------------------------------------------------
(* The main loop *)

At(place) == pc = place
Goto(place) == pc' = place /\ UNCHANGED k

NextKey == IF k = 3 THEN pc' = "head" /\ UNCHANGED k
                    ELSE pc' = "poll" /\ k' = k + 1

\* servo_init drives the bolt to its locked position, or finds no device.
ServoInit ==
    /\ At("entry") /\ Goto("devices")
    /\ bolt' = IF servo_pwm THEN "locked" ELSE bolt
    /\ UNCHANGED <<lifeVars, servo_pwm, is_unlocked, sessionVars, sensorVars, pressed, lcdVars>>

\* rfid_module_init, and with it rs485_init: a second rt_sem_init of the same
\* semaphore fails an assertion inside rt_enter_critical, and nothing runs again.
DevicesInit ==
    /\ At("devices")
    /\ IF rs485_ready THEN Goto("halted") ELSE Goto("welcome")
    /\ rs485_ready' = TRUE
    /\ UNCHANGED <<finger_thread, finger_thread_running, stopper, stops, doorVars,
                   sessionVars, sensorVars, pressed, lcdVars>>

Welcome ==
    /\ At("welcome") /\ Goto("head")
    /\ lcd_set_state("WELCOME")
    /\ UNCHANGED <<lifeVars, doorVars, sessionVars, sensorVars, pressed>>

LoopHead ==
    /\ At("head")
    /\ k' = 0
    /\ pc' = IF finger_thread_running THEN "poll" ELSE "exited"
    /\ UNCHANGED <<lifeVars, doorVars, sessionVars, sensorVars, pressed, lcdVars>>

Poll ==
    /\ At("poll")
    /\ IF k \in pressed THEN Goto("debounce") ELSE NextKey
    /\ UNCHANGED <<lifeVars, doorVars, sessionVars, sensorVars, pressed, lcdVars>>

\* The key is read again 50 ms later. Which branch follows depends on the key
\* and on what the thread believes of the door and of a running verification.
Debounce ==
    /\ At("debounce")
    /\ IF k \notin pressed THEN NextKey
       ELSE Goto(IF k = 3 THEN "error"
                 ELSE IF k = 2 THEN (IF is_unlocked THEN "hold" ELSE "lock")
                 ELSE IF finger_verifying THEN "busy"
                 ELSE IF is_unlocked THEN "leave_scan" ELSE "prompt")
    /\ UNCHANGED <<lifeVars, doorVars, sessionVars, sensorVars, pressed, lcdVars>>

\* Mutant of Release: waits for the wrong level of the pin.
ReleaseOnLow ==
    /\ pc \in {"release", "busy"}
    /\ k \in pressed
    /\ IF pc = "busy" THEN Goto("head") ELSE NextKey
    /\ UNCHANGED <<lifeVars, doorVars, sessionVars, sensorVars, pressed, lcdVars>>

\* Every branch ends by waiting for its key; the busy branch then starts over.
Release ==
    /\ pc \in {"release", "busy"}
    /\ k \notin pressed
    /\ IF pc = "busy" THEN Goto("head") ELSE NextKey
    /\ UNCHANGED <<lifeVars, doorVars, sessionVars, sensorVars, pressed, lcdVars>>

--------------------------------------------------------------------------------
(* KEY0 take, KEY1 store: finger_receive_response *)

LeaveScan ==
    /\ At("leave_scan") /\ Goto("prompt")
    /\ lcd_set_state("WELCOME")
    /\ UNCHANGED <<lifeVars, doorVars, sessionVars, sensorVars, pressed>>

Prompt ==
    /\ At("prompt") /\ Goto("send")
    /\ operation_type' = 1 - k
    /\ lcd_set_state("WAIT_FINGER")
    /\ finger_verifying' = TRUE
    /\ attempt' = 1 /\ finger_id' = InvalidId
    /\ verdicts' = {}
    /\ UNCHANGED <<lifeVars, doorVars, zw_busy, rx, pressed>>

PlaceAgain ==
    /\ At("again") /\ Goto("send")
    /\ lcd_show_centered_message("Please place")
    /\ UNCHANGED <<lifeVars, doorVars, sessionVars, sensorVars, pressed>>

\* Mutant of ClearBuffer: nothing is cleared.
ClearsNothing ==
    /\ At("send") /\ Goto("write")
    /\ UNCHANGED <<lifeVars, doorVars, sessionVars, sensorVars, pressed, lcdVars>>

\* finger_send_command: clear_serial_buffer, 20 ms, then the command.
ClearBuffer ==
    /\ At("send") /\ Goto("write")
    /\ rx' = <<>>
    /\ UNCHANGED <<lifeVars, doorVars, sessionVars, zw_busy, verdicts, pressed, lcdVars>>

WriteCommand ==
    /\ At("write") /\ Goto("wait")
    /\ zw_busy' = TRUE
    /\ UNCHANGED <<lifeVars, doorVars, sessionVars, rx, verdicts, pressed, lcdVars>>

\* No device, or not all bytes taken.
WriteFails ==
    /\ At("write") /\ Goto("send_failed")
    /\ UNCHANGED <<lifeVars, doorVars, sessionVars, sensorVars, pressed, lcdVars>>

\* Mutant of SendFailed: finger_verifying stays set.
SendFailedKeepsVerifying ==
    /\ At("send_failed") /\ Goto("release")
    /\ lcd_set_state("WELCOME")
    /\ UNCHANGED <<lifeVars, doorVars, sessionVars, sensorVars, pressed>>

\* Mutant of SendFailed: the display is left as it is.
SendFailedKeepsScreen ==
    /\ At("send_failed") /\ Goto("release")
    /\ finger_verifying' = FALSE
    /\ UNCHANGED <<lifeVars, doorVars, operation_type, attempt, finger_id, sensorVars,
                   pressed, lcdVars>>

SendFailed ==
    /\ At("send_failed") /\ Goto("release")
    /\ lcd_set_state("WELCOME")
    /\ finger_verifying' = FALSE
    /\ UNCHANGED <<lifeVars, doorVars, operation_type, attempt, finger_id, sensorVars, pressed>>

\* finger_wait_response_once reads all there is; a packet that settles nothing
\* is skipped.
ReadMatch ==
    /\ At("wait") /\ Goto("unlock")
    /\ \E i \in DOMAIN rx :
          /\ Settles(i) /\ parse_fingerprint_packet(rx[i]) = "MATCH_SUCCESS"
          /\ finger_id' = rx[i].id
    /\ rx' = <<>>
    /\ UNCHANGED <<lifeVars, doorVars, finger_verifying, operation_type, attempt,
                   zw_busy, verdicts, pressed, lcdVars>>

ReadFailure ==
    /\ At("wait") /\ Goto("missed")
    /\ \E i \in DOMAIN rx :
          Settles(i) /\ parse_fingerprint_packet(rx[i]) = "MATCH_FAILED"
    /\ rx' = <<>>
    /\ UNCHANGED <<lifeVars, doorVars, sessionVars, zw_busy, verdicts, pressed, lcdVars>>

\* What comes after a damaged packet may count as part of it, and is lost with it.
ReadOther ==
    /\ At("wait")
    /\ rx # <<>>
    /\ \A i \in DOMAIN rx : parse_fingerprint_packet(rx[i]) = "OTHER"
                           \/ \E j \in 1 .. i - 1 : rx[j].kind = "damaged"
    /\ rx' = <<>>
    /\ UNCHANGED <<threadVars, lifeVars, doorVars, sessionVars, zw_busy, verdicts, pressed, lcdVars>>

\* A damaged packet may say that it is 0xFFF7 bytes long. The length with the
\* header is then 0 in its 16 bits (finger.c:348), the parser takes the packet
\* as whole and goes on behind it, which is where it is: it never returns.
ReadSpins ==
    /\ At("wait") /\ Goto("spinning")
    /\ \E i \in DOMAIN rx :
          /\ rx[i].kind = "damaged"
          /\ \A j \in 1 .. i - 1 : parse_fingerprint_packet(rx[j]) = "OTHER"
    /\ UNCHANGED <<lifeVars, doorVars, sessionVars, sensorVars, pressed, lcdVars>>

\* Three seconds went by; what came in last may still be unread.
ResponseTimeout ==
    /\ At("wait") /\ Goto("missed")
    /\ UNCHANGED <<lifeVars, doorVars, sessionVars, sensorVars, pressed, lcdVars>>

\* servo_unlock: the bolt moves, 200 ms later the flag follows. Its error, when
\* there is no servo, is ignored.
Unlock ==
    /\ At("unlock")
    /\ IF servo_pwm THEN Goto("opened") /\ bolt' = "open"
                    ELSE Goto("granted") /\ UNCHANGED bolt
    /\ UNCHANGED <<lifeVars, servo_pwm, is_unlocked, sessionVars, sensorVars, pressed, lcdVars>>

Opened ==
    /\ At("opened") /\ Goto("granted")
    /\ is_unlocked' = TRUE
    /\ UNCHANGED <<lifeVars, servo_pwm, bolt, sessionVars, sensorVars, pressed, lcdVars>>

Granted ==
    /\ At("granted") /\ Goto("report")
    /\ lcd_set_state("SUCCESS")
    /\ UNCHANGED <<lifeVars, doorVars, sessionVars, sensorVars, pressed>>

\* trigger_finger_callback(finger_id) with operation_type.
ReportMatch ==
    /\ At("report") /\ Goto("release")
    /\ finger_verifying' = FALSE
    /\ UNCHANGED <<lifeVars, doorVars, operation_type, attempt, finger_id,
                   sensorVars, pressed, lcdVars>>

\* Mutant of Missed: one attempt too many.
MissedOnceMore ==
    /\ At("missed")
    /\ IF attempt <= RetryCount
       THEN /\ lcd_show_centered_message("Finger Failed")
            /\ attempt' = attempt + 1 /\ Goto("again")
       ELSE /\ lcd_set_state("FAILED")
            /\ UNCHANGED attempt /\ Goto("failed")
    /\ UNCHANGED <<lifeVars, doorVars, finger_verifying, operation_type, finger_id,
                   sensorVars, pressed>>

Missed ==
    /\ At("missed")
    /\ IF attempt < RetryCount
       THEN /\ lcd_show_centered_message("Finger Failed")
            /\ attempt' = attempt + 1 /\ Goto("again")
       ELSE /\ lcd_set_state("FAILED")
            /\ UNCHANGED attempt /\ Goto("failed")
    /\ UNCHANGED <<lifeVars, doorVars, finger_verifying, operation_type, finger_id,
                   sensorVars, pressed>>

\* Mutant of GiveUp: finger_verifying stays set.
GiveUpKeepsVerifying ==
    /\ At("failed") /\ Goto("release")
    /\ lcd_set_state("WELCOME")
    /\ UNCHANGED <<lifeVars, doorVars, sessionVars, sensorVars, pressed>>

GiveUp ==
    /\ At("failed") /\ Goto("release")
    /\ lcd_set_state("WELCOME")
    /\ finger_verifying' = FALSE
    /\ UNCHANGED <<lifeVars, doorVars, operation_type, attempt, finger_id, sensorVars, pressed>>

--------------------------------------------------------------------------------
(* KEY2: a short press scans, a long press locks; while the door is locked any *)
(* press locks again. KEY3 shows the error screen.                             *)

\* check_key_long_press: released before 5 s, or held throughout.
ShortPress ==
    /\ At("hold") /\ Goto("countdown")
    /\ k \notin pressed
    /\ UNCHANGED <<lifeVars, doorVars, sessionVars, sensorVars, pressed, lcdVars>>

\* Mutant of LongPress: every press of a held key starts a scan.
LongPressScans ==
    /\ At("hold") /\ Goto("countdown")
    /\ k \in pressed
    /\ UNCHANGED <<lifeVars, doorVars, sessionVars, sensorVars, pressed, lcdVars>>

LongPress ==
    /\ At("hold") /\ Goto("lock")
    /\ k \in pressed
    /\ UNCHANGED <<lifeVars, doorVars, sessionVars, sensorVars, pressed, lcdVars>>

\* servo_lock
Lock ==
    /\ At("lock")
    /\ IF servo_pwm THEN Goto("closed") /\ bolt' = "locked"
                    ELSE Goto("lock_failed") /\ UNCHANGED bolt
    /\ UNCHANGED <<lifeVars, servo_pwm, is_unlocked, sessionVars, sensorVars, pressed, lcdVars>>

\* Mutant of Closed: the flag is not reset.
ClosedKeepsFlag ==
    /\ At("closed") /\ Goto("locked")
    /\ UNCHANGED <<lifeVars, doorVars, sessionVars, sensorVars, pressed, lcdVars>>

Closed ==
    /\ At("closed") /\ Goto("locked")
    /\ is_unlocked' = FALSE
    /\ UNCHANGED <<lifeVars, servo_pwm, bolt, sessionVars, sensorVars, pressed, lcdVars>>

Locked ==
    /\ At("locked") /\ Goto("lock_led")
    /\ lcd_set_state("WELCOME")
    /\ UNCHANGED <<lifeVars, doorVars, sessionVars, sensorVars, pressed>>

LockLed ==
    /\ At("lock_led") /\ Goto("release")
    /\ UNCHANGED <<lifeVars, doorVars, sessionVars, sensorVars, pressed, lcdVars>>

LockFailed ==
    /\ At("lock_failed") /\ Goto("release")
    /\ lcd_show_centered_message("Lock Failed")
    /\ UNCHANGED <<lifeVars, doorVars, sessionVars, sensorVars, pressed>>

\* rfid_scan_procedure: ten seconds of countdown, the scan, its result for two
\* seconds, and the offer to scan again or to lock.
Countdown ==
    /\ At("countdown") /\ Goto("scan")
    /\ lcd_show_centered_message("RFID Scanning")
    /\ UNCHANGED <<lifeVars, doorVars, sessionVars, sensorVars, pressed>>

\* rfid_scan_once returns. It need not: the emptying of the line (rfid.c:298) has
\* no clock, and the callback before its return (rfid.c:407) may wait in an upload
\* (pipe.c:310). RfidScan has its steps.
Scan ==
    /\ At("scan") /\ Goto("result")
    /\ UNCHANGED <<lifeVars, doorVars, sessionVars, sensorVars, pressed, lcdVars>>

ScanResult ==
    /\ At("result") /\ Goto("offer")
    /\ lcd_show_centered_message("Scan Result")
    /\ UNCHANGED <<lifeVars, doorVars, sessionVars, sensorVars, pressed>>

Offer ==
    /\ At("offer") /\ Goto("release")
    /\ lcd_show_centered_message("Press KEY2")
    /\ UNCHANGED <<lifeVars, doorVars, sessionVars, sensorVars, pressed>>

ShowError ==
    /\ At("error") /\ Goto("error_done")
    /\ lcd_set_state("FAILED")
    /\ UNCHANGED <<lifeVars, doorVars, sessionVars, sensorVars, pressed>>

ErrorDone ==
    /\ At("error_done") /\ Goto("release")
    /\ lcd_set_state("WELCOME")
    /\ UNCHANGED <<lifeVars, doorVars, sessionVars, sensorVars, pressed>>

--------------------------------------------------------------------------------
(* The user and the sensor *)

KeyDown(key) ==
    /\ key \notin pressed /\ Cardinality(pressed) < MaxPressed
    /\ pressed' = pressed \cup {key}
    /\ UNCHANGED <<threadVars, lifeVars, doorVars, sessionVars, sensorVars, lcdVars>>

KeyUp(key) ==
    /\ key \in pressed
    /\ pressed' = pressed \ {key}
    /\ UNCHANGED <<threadVars, lifeVars, doorVars, sessionVars, sensorVars, lcdVars>>

\* The sensor works on one command at a time and may answer long after the
\* thread has given up on it. Noise on the line arrives at any time.
SensorSends(p) ==
    /\ zw_busy \/ p.kind = "damaged"
    /\ Len(rx) < MaxRx
    /\ rx' = Append(rx, p)
    /\ zw_busy' = (zw_busy /\ p.kind \in {"step", "damaged"})
    /\ verdicts' = IF p.kind = "match" /\ p.id # InvalidId
                   THEN verdicts \cup {p.id} ELSE verdicts
    /\ UNCHANGED <<threadVars, lifeVars, doorVars, sessionVars, pressed, lcdVars>>

--------------------------------------------------------------------------------
(* finger_thread_start and finger_thread_stop, called by other threads *)

\* Nothing runs once the system has halted.
finger_thread_start ==
    /\ ~finger_thread /\ pc # "halted"
    /\ finger_thread' = TRUE
    /\ finger_thread_running' = TRUE
    /\ pc' = "entry" /\ k' = 0
    /\ UNCHANGED <<stopper, stops, rs485_ready, doorVars, sessionVars, sensorVars, pressed, lcdVars>>

finger_thread_stop ==
    /\ finger_thread /\ stopper = "idle" /\ pc # "halted"
    /\ stops < MaxStops /\ stops' = stops + 1
    /\ finger_thread_running' = FALSE
    /\ stopper' = "waiting"
    /\ UNCHANGED <<threadVars, finger_thread, rs485_ready, doorVars, sessionVars,
                   sensorVars, pressed, lcdVars>>

\* Places whose next step starts with a call of the display.
LcdCalls == {"welcome", "leave_scan", "prompt", "again", "send_failed", "granted", "missed",
             "failed", "locked", "lock_failed", "countdown", "result", "offer", "error",
             "error_done"}

\* 100 ms later rt_thread_delete takes the thread off the scheduler wherever it
\* is; a mutex it holds stays taken.
StopDeletes ==
    /\ stopper = "waiting" /\ pc \notin {"exited", "halted"}
    /\ pc' = "none" /\ k' = 0
    /\ stopper' = "idle"
    /\ finger_thread' = FALSE
    /\ UNCHANGED lcdVars \/ (pc \in LcdCalls /\ LcdOwnerDies)
    /\ UNCHANGED <<finger_thread_running, stops, rs485_ready, doorVars, sessionVars,
                   sensorVars, pressed>>

\* The thread left its loop in time. Unless the idle thread has not yet freed
\* it, the type of the object it was has been erased, and an assertion fails.
StopAfterExit ==
    /\ stopper = "waiting" /\ pc = "exited"
    /\ \/ stopper' = "idle" /\ finger_thread' = FALSE /\ pc' = "none"
       \/ stopper' = "asserted" /\ UNCHANGED <<finger_thread, pc>>
    /\ UNCHANGED <<k, finger_thread_running, stops, rs485_ready, doorVars, sessionVars,
                   sensorVars, pressed, lcdVars>>

--------------------------------------------------------------------------------
MainLoop == ServoInit \/ DevicesInit \/ Welcome \/ LoopHead \/ Poll \/ Debounce \/ Release

Verification ==
    \/ LeaveScan \/ Prompt \/ PlaceAgain \/ ClearBuffer \/ WriteCommand \/ WriteFails
    \/ SendFailed \/ ReadMatch \/ ReadFailure \/ ReadOther \/ ReadSpins
    \/ ResponseTimeout \/ Unlock \/ Opened \/ Granted \/ Missed \/ GiveUp

Door == \/ ShortPress \/ LongPress \/ Lock \/ Closed \/ Locked \/ LockLed \/ LockFailed
        \/ Countdown \/ ScanResult \/ Offer \/ ShowError \/ ErrorDone

\* All steps of the thread; ReportMatch and Scan call the message module. The
\* handler of a match uploads nothing, as no scan is ever pending (NoHalfEvent of
\* Msg); that of a scan does, and may not return.
ThreadStep == MainLoop \/ Verification \/ Door \/ ReportMatch \/ Scan

Surroundings ==
    \/ \E key \in Keys : KeyDown(key) \/ KeyUp(key)
    \/ \E p \in Packet : SensorSends(p)

Lifecycle == finger_thread_start \/ finger_thread_stop \/ StopDeletes \/ StopAfterExit

FingerNext == ThreadStep \/ Surroundings \/ Lifecycle

FingerSpec == FingerInit /\ [][FingerNext]_fingerVars

\* main starts the thread; the thread is scheduled (priority 20; every higher
\* thread sleeps or waits); the three seconds of a wait pass whatever arrives.
\* Nothing is assumed of the user or of the sensor, and not that a scan returns.
FingerFairness ==
    /\ WF_fingerVars(finger_thread_start)
    /\ WF_fingerVars(ThreadStep /\ ~At("scan"))
    /\ WF_fingerVars(ResponseTimeout)

FairFingerSpec == FingerSpec /\ FingerFairness

--------------------------------------------------------------------------------
(* Properties *)

MainPlaces == {"entry", "devices", "welcome", "head", "poll", "debounce", "release", "busy"}
WaitPlaces == {"again", "send", "write", "wait"}
MatchPlaces == {"unlock", "opened", "granted", "report"}
SessionPlaces == WaitPlaces \cup MatchPlaces \cup {"spinning", "send_failed", "missed", "failed"}
DoorPlaces == {"leave_scan", "prompt", "hold", "lock", "closed", "locked", "lock_led",
               "lock_failed", "countdown", "scan", "result", "offer", "error", "error_done"}
Places == MainPlaces \cup SessionPlaces \cup DoorPlaces \cup {"none", "exited", "halted"}

FingerTypeOK ==
    /\ pc \in Places /\ k \in Keys
    /\ finger_thread \in BOOLEAN /\ finger_thread_running \in BOOLEAN
    /\ stopper \in {"idle", "waiting", "asserted"} /\ stops \in 0 .. MaxStops
    /\ rs485_ready \in BOOLEAN
    /\ servo_pwm \in BOOLEAN /\ bolt \in {"locked", "open"} /\ is_unlocked \in BOOLEAN
    /\ finger_verifying \in BOOLEAN /\ operation_type \in {0, 1}
    /\ attempt \in 1 .. RetryCount /\ finger_id \in FingerIds \cup {InvalidId}
    /\ pressed \subseteq Keys
    /\ zw_busy \in BOOLEAN /\ rx \in Seq(Packet) /\ verdicts \subseteq FingerIds
    /\ LcdTypeOK

\* The match the thread acts on was given by the sensor after this session
\* began: an answer to a command of an earlier session that arrived while
\* nobody asked is never taken for one (finger.c:477 clears the buffer).
MatchIsFresh ==
    pc \in MatchPlaces => finger_verifying /\ finger_id \in verdicts

Access == INSTANCE DoorAccess WITH door <- bolt, session <- finger_verifying

\* Across retries, late answers, stops and restarts of the thread, the bolt
\* opens only in a session in which the sensor matched a finger.
BoltImplementsDoorAccess == Access!AccessSpec

\* Without a stop, what the thread believes of the door is where the bolt is
\* whenever it acts on it, although flag and bolt change 200 ms apart and a
\* session may start and fail while the door is open.
FlagFollowsBolt ==
    stops = 0 /\ servo_pwm /\ pc \notin {"none", "entry", "opened", "closed"}
        => (is_unlocked <=> bolt = "open")

\* Without a stop, a verification is marked as running only while the thread is
\* in one, so the busy branch (finger.c:548, 592) never turns a user away.
VerifyingOnlyInSession == stops = 0 /\ finger_verifying => pc \in SessionPlaces

\* While a finger is awaited the screen asks for one, though lcd_set_state
\* draws nothing when it believes its screen is up, and messages of the
\* previous session were drawn over it.
FingerIsPrompted ==
    pc \in {"send", "write", "wait"} /\ lcd_mutex = "free"
        => screen = IF attempt = 1 THEN "WAIT_FINGER" ELSE "Please place"

\* A session ends, by a match, a failed command or the last miss, whatever the
\* sensor sends or fails to send, but for the one damaged length that keeps the
\* parser for ever.
SessionEnds == finger_verifying ~> ~finger_verifying \/ pc = "spinning"

\* Once the user leaves the keys alone, the thread comes back to the head of
\* its loop again and again, and what the last key started comes to its end: no
\* delay, display or silent sensor holds it. What may is that length, and a scan
\* that never returns, kept by the line or by its upload.
LoopGoesOn ==
    <>[](pressed = {}) => []<>(pc \in {"head", "spinning"}) \/ <>[](pc = "scan")

\* A user who holds KEY2, and only KEY2, from the head of the loop on ends up
\* before a locked door, whatever session, scan or failed command was before and
\* whatever the thread believes of the door. From elsewhere this need not be:
\* the branch that was running ends waiting for the key.
HoldingKeyLocks ==
    pc = "head" /\ pressed = {2} /\ servo_pwm ~> bolt = "locked" \/ pressed # {2}

\* finger.c:641 and 667: once the servo has locked, the display is back at the
\* initial screen.
LockShowsWelcome == pc = "lock_led" /\ lcd_mutex = "free" => screen = "WELCOME"

\* finger.h:48: finger_thread_stop waits for the thread's safe exit; no
\* verification is left marked as running and the display is free.
StopIsSafe == pc = "none" => ~finger_verifying /\ lcd_mutex # "orphaned"
=================================================================================
