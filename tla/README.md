# Verification of the smart explosion-proof cabinet firmware

TLA+ models, TLC runs and TLAPS proofs for the firmware in `src/applications` and for what it
runs on directly: the RS485 driver, the MQTT client with its pipe, RT-Thread's WLAN management
and the RW007 driver. The firmware runs on RT-Thread on an STM32F407. Paths below are relative
to the repository's `src/`.

## The system

| Part | Source | State it keeps | Operations | Hard part |
|---|---|---|---|---|
| Finger thread | `applications/finger.c` | `is_unlocked`, `finger_verifying`, `operation_type`, the thread handle and its run flag, the servo | main loop over KEY0 (take), KEY1 (store), KEY2 (scan, lock), KEY3 (error screen); a verification of up to three attempts; start and stop | late answers of the sensor, sessions while the door is open, deletion of the thread anywhere |
| Message module | `applications/msg.c` | `current_msg`, two "received" flags, the last operation and its tick | callback handlers for a match and for a scan; console commands | events joined with the wrong match, a match lost or reported twice, the tick counter |
| Display | `applications/lcd.c` | `current_state`, `lcd_mutex`, the screen | `lcd_set_state` (draws only a new state), `lcd_show_centered_message` (draws, state unchanged) | the believed screen is not the screen |
| RFID reader | `applications/rfid.c` | `rx_buf`, the callback | `rfid_scan_once` in two phases, `send_start_inventory`, the parser of replies | 8- and 16-bit lengths, replies in pieces, late or in part; a drain without a clock, a callback that may block |
| RS485 driver | `Board_Drivers/rs485/drv_rs485.c` | the receive queue, `rs485_rx_sem`, a receive thread | init, send, receive thread | the receive thread takes bytes from the queue the reader polls; init is not repeatable |
| OneNET upload | `applications/onenet.c` | `msg_id_counter` | build JSON, publish | memory, a client that is not connected |
| MQTT client | `packages/pahomqtt-latest/.../paho_mqtt_pipe.c`, `packages/onenet-latest/src/onenet_mqtt.c`, `components/drivers/ipc/pipe.c` | `isconnected`, the pipe, the last ping's tick, the socket | connect, subscribe, select on socket and pipe, ping, publish, restart | writers that block inside a message, a session that breaks with half of one in the pipe, the computed timeout of `select` |
| WiFi | `applications/wifi.c` | semaphores `scan_done`, `net_ready` | scan, connect, wait for an address, start the automatic reconnection | waits without a timeout, detach while in use |
| WLAN management | `rt-thread/components/drivers/wlan/` | `_sta_mgnt.state` and `info`, the event table, the timer of the reconnection, the complete object, two work queues | connect, disconnect, event dispatch, auto-connect, the lwIP glue | flags read and written by four threads, events that are lost or come late |
| RW007 driver | `packages/rw007-v2.0.1/src/spi_wifi_rw007.c` | answers per command, the link | commands with an answer or a timeout of 10 s, events | an answer that comes after its timeout stays for the next command |
| Start | `applications/main.c` | - | WiFi, OneNET, message module, display, finger thread, in this order | a step that never returns stops all later ones |

Interaction: `main` initialises everything and starts the finger thread (priority 20). The
finger thread calls the display, the sensor's UART and `rfid_scan_once`; a match and a scan
reach `msg.c` through the two registered callbacks, in the finger thread. The shell (also
priority 20) calls the same handlers and scans by console command. `msg.c` calls
`onenet_upload_event`, which writes the event into a pipe the MQTT client's own thread reads;
when the pipe is full the finger thread waits there,
inside `rfid_scan_once` (`rfid.c:407`), without a timeout. The WiFi connection is kept by the system
work queue, the "wlan" work queue and the event dispatch of the RW007's thread. Priorities, a
lower number first: RW007 events 8, main 10, "wlan" 15, finger and shell 20, system work queue
23, RS485 25.

What makes each part correct:

- Finger thread: the door opens only for a match the sensor gave in the running session; the
  flag says where the bolt is; a session always ends and leaves nothing behind; the screen
  asks for what the thread waits for.
- Message module: user, operation and item of one report belong together; a match is reported
  at most once; nothing of an earlier event leaks into a later one; a recent match is seen.
- Both together: a report names the person whose match opened the door, and what that person
  asked for.
- RFID: a whole reply is understood; an item is reported only if the reader named it in this
  scan; a scan gets to its report, unless the line never falls silent; bytes go to the one who
  waits for them.
- Upload: events reach the cloud in order, once, unmixed and only within a session; an upload
  that reported an error never shows up; the client comes back; no caller is blocked for good.
- WiFi and start: the finger thread starts whatever the network does; the connection comes back;
  nobody releases a semaphore that is gone.

## Modules

| Module | What it is |
|---|---|
| `EventLog` | abstract: a match opens an entry, the first scan closes it and reports it at most once |
| `Msg` | `msg.c`, one action per handler and console command; implements `EventLog` |
| `DoorAccess` | abstract: the door opens only in a session, after the sensor matched a finger in it |
| `Lcd` | `lcd.c`, operators that are part of the caller's action |
| `Finger` | `finger.c`, one action per step of the thread between two places it can be suspended; implements `DoorAccess` |
| `Cabinet` | `Finger` and `Msg` together, as `main.c` wires them |
| `RfidScan` | `rfid_scan_once` over the driver's queue, with the reader, the driver's thread and a console command; the parser over bytes |
| `Uplink` | abstract: a queue that may lose events but never reorders, repeats or brings up a refused one |
| `Mqtt` | the upload path: callers, pipe, client thread, connection; implements `Uplink` |
| `Wlan` | the start of the program, `wifi()`, the WLAN management, the lwIP glue and the RW007 |
| `MsgProofs`, `FingerProofs`, `CabinetProofs`, `MqttProofs`, `RfidProofs`, `RfidReportProofs`, `WlanProofs` | theorems and proofs |
| `MCMsg`, `MCFinger`, `MCCabinet`, `MCRfid`, `MCMqtt`, `MCWlan` | the instances TLC checks |

`Msg` is composed with `Finger` in `Cabinet`. `Mqtt` refines what `Msg` calls an accepted or
failed upload. `RfidScan` stands for the step `Scan` of `Finger`, `Wlan` for what must happen
before `finger_thread_start`; they share no state with the others and are checked on their own.

### How the state corresponds to the code

`Msg` has the variables of `msg.c` under their names. `last_finger_time` is read only as
`rt_tick_get() - last_finger_time`, so the model keeps that difference (`since_finger`, modulo
the range of the counter) instead of two counters; `msg_clear`, which sets the time to 0,
leaves it at any value. `elapsed` is a history variable, the real age of the last match.
`outbox` is what the MQTT client has accepted. An upload may fail at any time and is then
only logged, as in the code. `EventOf` keeps the three fields the JSON text carries. The
name of a result (`rfid_get_item_id`) is one to one on `rfid_result_t`, so a result stands
for it.

`Finger` has the variables of `finger.c` under their names, and `pc` and `k` for the place in
the main loop and the key it looks at. A step runs from one delay or display call to the
next; nothing else of the program changes the thread's variables in between, except stop and
start, which are actions of their own. `bolt` is where the servo moved last; `is_unlocked`
follows one step (200 ms) later. A packet from the sensor is one of the kinds
`parse_fingerprint_packet` tells apart. The sensor works on one command at a time
(`zw_busy`), may answer at any later moment or never, may send intermediate packets, and
damaged bytes may arrive at any time. What a damaged packet does is modelled by its outcomes: it
is skipped, it takes the packets behind it along with it (`ReadOther`), or its length is the one
that keeps the parser for ever (`ReadSpins`, below). `verdicts` (history) are the fingers the
sensor matched since the session began. The six texts drawn by `lcd_show_centered_message` are one model value
each; the item names after a scan are one text. `Scan`, the call of `rfid_scan_once`, need not return:
the drain before its command has no clock (`rfid.c:298`), and the callback at its end reaches the pipe
(`rfid.c:407`, `pipe.c:310`).

Not in `Finger`: the LED, and `is_locked` and `unlock_rfid_mode`, which the file writes and
never reads. `finger_thread_stop` is called by nobody in the repository; it is public, so it is
in the model, and what a stop breaks is stated for a thread nobody has stopped yet (`stops = 0`).
A failed creation of the thread changes nothing.

`Cabinet` binds the thread's `trigger_finger_callback` and `rfid_scan_once`'s callback to the
handlers. A scan that gets no byte calls no callback (`ScanFails`, `rfid.c:313-318, 387-390`);
every other scan reports its result, errors included. The countdown before a scan lasts ten
seconds (`Work`). It assumes that no scan comes 49 days or more after its match
(`TimePasses`); `msg_window` is the run without that assumption.

`RfidScan` keeps bytes as numbers, because its properties are about frames and their lengths.
`step` is the place in `rfid_scan_once` between two delays; `fifo` is the receive queue of the
serial driver, which drops its oldest bytes to keep one place free (`Kept`, `serial.c:1319`); the
buffer of the scan keeps its last place free, too (`RfidTypeOK` says both). The driver's
thread and the console command take bytes only while the scanning thread sleeps. The end of a
phase is a choice, because the phases end by their clocks; the drain has none, and `Noise`, a byte that
meets it again and again, may hold it for ever. A scan that received something is in its callback
(`report`) until that returns, which it need not. `rs485_send_data` never reports an error
(`rfid.c:314`). `said` (history) is what the replies
of this scan mean by the layout of a frame (`Meaning`), which is written apart from the parser.

`Mqtt` counts the pipe in cells: a message is `MsgCells` of them, the first carries the header
that says how long the message is. `place` is where the client's thread waits; `wait` is the
timeout of its next `select`, timed or, when it was computed negative, for ever. A caller writes
as much as there is room for and waits for more (`rest` cells left). A connection is opened,
refused, broken by the other side, or silent (`link`); `disturbed` says that the link was down
since it was opened. The client reads all there is in the pipe and sends the first message of it;
the remains of a message it finds there instead are taken for a header, and the length in them (or, behind
a short tail, in the header of the next message) is ignored, publishes something that is no event to a
topic that is none, ends the session, or leads to a fault that halts the system (`TailReadable`). Underway, for
`Uplink`, are the event on the wire, the one about to be sent, and those whose first cell is in the
pipe, each at the place its cell has among the first cells (`EventsStarted`). What is left when some
are lost is a sequence whose elements stood in the old one in the same order (`Thinned`).

`Wlan` has one variable `place` for main and, after the start, the work of the automatic
reconnection: only one of the two is ever in a management call, so `mgnt_mutex` is never
contended and left out. `|=` and `&=` on `_sta_mgnt.state` are a read (`copy`) and a write, with
the event thread between them. `current` is the work the "wlan" thread is at and what it has
looked up; `stuck` says that it failed an assertion, after which nothing of lower priority runs.
`Lose` counts what is lost or comes after its timeout, up to `MaxLosses`.

## Runs

| Run | Checks | Shows | Bounds |
|---|---|---|---|
| `msg` | type, `NoHalfEvent`, `RecentMatchIsSeen`, `UploadsImplementLog` | the handlers implement the event log under any order of matches, scans and console commands | one finger beside id 0, two results (one is the value 0 a cleared record holds), a counter of 6 ticks with a window of 2, so that it wraps in and outside the window, two queued events |
| `msg_window` | `WindowIsRecent` (violated) | with no match waiting, a match a full turn of the counter ago reopens the five-second window | same |
| `finger` | type, `MatchIsFresh`, `FlagFollowsBolt`, `VerifyingOnlyInSession`, `FingerIsPrompted`, `BoltImplementsDoorAccess` | the door, the flag and the prompt under all answers and keys, and the door and the prompt under a stop anywhere and a restart | three attempts as in the code, one finger, one key down at a time, two packets buffered (an intermediate or damaged one before a result, or two results), one stop |
| `finger_live` | `SessionEnds`, `LoopGoesOn`, `HoldingKeyLocks` | no session hangs, the loop goes on as long as its scans return, holding KEY2 locks an open door | two attempts, one packet |
| `finger_unsafe_stop` | `StopIsSafe` (violated) | a stop leaves a verification marked as running, or the display's mutex taken | one stop |
| `finger_screen` | `LockShowsWelcome` (violated) | a locked cabinet still shows "Press KEY2 to scan" | three attempts |
| `cabinet` | type, `MatchWaitsForScan`, `ReportsNameTheHolder`, `OneReportPerMatch` | reports name the right user and operation, once | two users, an item and a scan without one, one attempt, one tick longer than five seconds |
| `cabinet_scan` | `ItemScanHasItsMatch` (violated) | a scan without a tag uses up the match | same |
| `rfid` | type, `ReportWasSaid`, `SilenceReportsNothing`, `WholeReplyIsUnderstood`, `ScanEnds` | a scan gets to its report unless the line never falls silent, understands a whole reply, names only what the reader named, and reports nothing when the reader said nothing | two replies (a late one and the next), a known tag and none, a reply that may pause after its header, one console command, a buffer that one reply and a part of the next fill, a ring of the driver that is smaller than a reply, so that it overflows |
| `mqtt` | type, `FrontIsWhole`, `SentInSession`, `ImplementsUplink`, `ComesBackOnline`, `UploadReturns` | events arrive in order, once and unmixed; the client returns; callers return | two callers, three uploads of two cells, a pipe of three (one message and half of the next), one command of the cloud; connections without bound |
| `mqtt_silent` | `DeadLinkIsNoticed` (violated) | a client that waits for ever on a dead link | one caller, one upload |
| `wlan` | type, `AssertionOnlyAfterTimeout`, `MainGoesOn`, `Reconnects` | the program starts, the connection comes back (flags, link and address), the assertion fails only after a timeout | the access point leaves twice, one event, answer or work lost or late at any point |

Why the bounds are enough: a session is told from the next one by what it leaves (flags, a
busy sensor, packets, the screen), all of which one finger and two packets produce; two users
are needed only where a report could name the wrong one (`cabinet`, where the two are symmetric:
nothing tells one from the other, and the run checks no liveness). What grows beyond the
bounds (attempts, fingers, packets, keys held, stops, counter and window) is a constant of
the theorems. Two callers and a pipe of a message and a half are what it takes for one message to
be cut by another; a third upload comes after a broken session. Two replies are the late one
and the one that is asked for. With two departures of the access point one falls into the first
connection and one into the reconnection. `MCCabinet` leaves out, by a constraint, the cases
without a servo, with a display, and packets that the parser treats like others; `finger` has
them, and the theorems of `CabinetProofs` need no such constraint.

Fairness. `finger_live`: the thread takes its next step when it can (priority 20; every thread
above it sleeps or waits; its delays end), `main` starts it (there is memory for a thread), and
the three seconds of a wait run out whatever arrives (`finger.c:335` compares ticks). Nothing
is assumed of the user or the sensor, nor that a scan returns (`~At("scan")` in the fairness): `LoopGoesOn`
excepts a thread that stays in one. `LoopGoesOn` asks that the keys be left alone in the end,
because every branch waits for its key's release (`finger.c:580`); for the same reason
`HoldingKeyLocks` speaks of a key held at the head of the loop. `SessionEnds` and `LoopGoesOn`
except the one hang a session has (`pc = "spinning"`): at `finger.c:348` nine and a damaged length of
0xFFF7 make zero in 16 bits, and the parser goes on behind the packet, where it already is.

`rfid`: the scanning thread is scheduled, and each phase, which asks its clock every millisecond,
finds it run out in the end (strong fairness, as in between the thread sleeps). Nothing is assumed of the
reader, nor that the callback returns; `ScanEnds` is satisfied once the callback is reached, and excepts a
line on which bytes meet the drain for ever. When an upload returns is `UploadReturns` of `Mqtt`. `mqtt`: the
client's thread and a caller with room in the pipe are scheduled, a broker answers while the link
is up, and TCP gives up on a connection with something unacknowledged; nothing is assumed of the
link, and the properties ask for a link that is well from some time on. `wlan`: threads that can
run do, timers fire, the RW007 answers each command and reports each event unless it is lost, DHCP
gives an address, and the RW007 does not refuse to join for ever.

Deadlock is checked in every run but `wlan`, where the system may really stop: connected, with no
departure of the access point left, nothing more happens.

## What is proved

`MsgProofs`, for every set of fingers and results, every counter range and every shorter
window (assumption `MsgConstants`; `NoEntryIsNoEntry` for the refinement):

- `MsgTypeCorrect`, `NoHalfEventEver`, `RecentMatchAlwaysSeen`. The inductive invariant is
  `MsgInv`: the types, `NoHalfEvent`, and `AgeIsExact` (the computed age is the real age while
  that is below the window). `RecentMatchIsSeen` alone is not inductive: it says nothing about
  how far the counter has come. `NoHalfEvent` carries that `rfid_received` is never seen set,
  which is why `finger_callback_handler` never sends.
- `MsgImplementsLog`: initial states map to initial states; under `MsgInv` every handler is one
  step of `EventLog` or changes nothing of it.

`FingerProofs`, for every set of fingers, number of attempts, buffer size, number of keys and,
unless said otherwise, of stops (assumptions `FingerConstants`, `FingerMessages`,
`MessagesAreNoStates`):

- `FingerTypeCorrect`, with `KeyAsks` (only KEY0 and KEY1 lead to a session; `operation_type` is
  computed from the key).
- `MatchIsAlwaysFresh` and `FingerImplementsDoorAccess`, from `SessionInv`: within a session
  `finger_verifying` is set, none starts over another, and from the clearing of the buffer until
  it is read, a match in the buffer was given in this session. The last part is what
  `clear_serial_buffer` (`finger.c:477`) is for.
- `FingerIsAlwaysPrompted`, from `PromptInv`: outside a session the display never believes it
  shows the prompt, because every session that ends draws another state.
- `FlagAlwaysFollowsBolt` and `VerifyingEndsWithSession`, from `FlagInv`, until somebody stops
  the thread: with a stop both are false.

`CabinetProofs`, for every set of users and results, every number of attempts and keys held, and
every counter that holds the countdown and the window together (assumption `CabinetConstants`;
`Window <= CountdownTicks` is what `msg.c:81` and `finger.c:179` give):

- `CabinetTypeCorrect`, `MatchAlwaysWaits`, `ReportsAlwaysNameTheHolder`, `OnlyOneReportPerMatch`. The
  inductive invariant `CabinetInv` joins those of the thread (`ThreadInv`, taken over from
  `FingerProofs`), those of the record (`RecordInv`), and `HolderInv`: the record waits with the last
  match until a scan answers it, and while a scan is taken the window of the last match has closed.
  The last conjunct is why a match is not reported a second time, and it rests on the countdown in
  another file; `UnlockedToScan` (a scan runs only while the thread takes the door for unlocked,
  which it does only with a servo) is why the door is open when a report leaves.
- `CabinetImplementsDoorAccess`: the composition keeps what the thread promises, `DoorAccess`. Every step
  of the cabinet is a step of `Finger` or leaves it alone, so it follows from the step lemma of
  `FingerProofs`. That the reports implement `EventLog` is a theorem of `Msg` and not stated again: every
  step of the cabinet on the variables of `msg.c` is a step of `Msg`.

`MqttProofs`, for every number of callers, message length, pipe that holds one message, and number
of uploads and commands (assumptions `MqttConstants`, `MessageFitsPipe`):

- `MqttTypeCorrect`, `FrontIsAlwaysWhole`, `AlwaysSentInSession`, from `MqttInv`: the types, that a
  caller with cells left has an event (`WritersHaveEvents`) and so has a send (`SendHasEvent`), and that
  the broker answers one packet at a time and grants what it said it would (`Granted`). `FrontIsWhole`
  is inductive given these: the client always empties the pipe, so a header comes to its front only
  where a message began in an empty pipe, which holds all of it.
- `MqttImplementsUplink`, from `MqttInv` and `EventsInHand`: a caller has an event exactly while it
  writes, no two callers have the same one, and none in hand was refused; so the event whose first cell
  goes in is new to the queue, and so is the one whose upload fails. The lemmas on cells say what each step
  does to the ranks of the first cells: writing appends at most one (`OneStarts`, `NothingStarts`),
  sending takes the first (`FrontIsFirst`), a pipe that is emptied otherwise loses what began in it
  (`EmptyStartsNothing`, `LosesPiece`). Then each step of the client, a caller or the network is
  `Accept`, `Refuse`, `Arrive` or `Lose`, or changes nothing of the queue.

`WlanProofs`, for every number of departures and losses (assumption `WlanConstants`):

- `WlanTypeCorrect` and `WlanAssertion`, from `WlanInv`. `AssertionOnlyAfterTimeout` says nothing of
  the states before the wait; `NothingReady` and `NotJoined` say that before main waits for an address
  no handler has been looked up that could release the semaphore, `AnsweredWait` that a wait about to
  be answered leaves none behind, and `Detached` and `StuckThread` carry this on to the assertion.

`RfidProofs`, for every size of the ring and of the buffer, and every number of replies and console
commands (assumption `RfidConstants`: the buffer has room for a byte, payloads are shorter than 248):

- `RfidTypeCorrect`, from `RfidInv`, which adds that the buffer is empty until the first phase has read
  its byte (`NothingYet`): the first phase asks nothing of the buffer's room (`rfid.c:327`). What is to
  come is always the rest of one frame, so that what arrives is bytes of it (`ArrivingBytes`).
- `WholeRepliesAreUnderstood`, for every set of payloads that are `Readable`: the search for `00 01` or
  `00 02` (`rfid.c:174-181`) takes any such pair for a tag, and a payload that has one out of place
  and no known tag in place is understood as something the reader did not name. `Holds` says what the buffer
  starts with; from there the first header is found at offset 0, the length is the payload's, and parser
  and `Meaning` give the same name (`Named`).

`RfidReportProofs`, under the same assumption:

- `SilenceIsNeverReported`, from `Silent`: while the reader has said nothing since the scan began, no
  byte is to come, and once the line was read empty there is none in the ring or the buffer either.
  `SilenceReportsNothing` alone is not inductive: nothing in it says what a scan is about to evaluate.
- `ReportsWereSaid`, from `Sourced`: as long as one reply was heard since the scan began, what was
  received, waits in the ring and is still to come make up, in this order, a part of that reply once
  the line was read empty (`OnTheWay`, `PartOf`: some bytes may be missing, none moved past another).
  Every step keeps the whole or loses bytes of it (`Carries`). `LossNamesNothingElse` then says that
  the parser, given a part of a reply, names what the reply names, or reports an error or an unknown item.

`ReportsWereSaid` has a hypothesis on the payloads: none can be mistaken for another one when bytes of
it are lost (`Unmistakable`; the payloads of the run are such). It is needed: the length of a frame
leaves out the checksum, which is never read, so a reply that lost one byte passes for whole, and the
search takes any `00 01` or `00 02` for a tag (`rfid.c:174-181`). With the payload `00 01 09 E2 00 30 11
00 02`, whose tag is item 2, and a pause after twelve bytes, TLC finds a scan that reports item 1.

Only model-checked: all liveness (`SessionEnds`, `LoopGoesOn`, `HoldingKeyLocks`, `ComesBackOnline`,
`UploadReturns`, `ScanEnds`, `MainGoesOn`, `Reconnects`), which is out of the prover's reach, as is
`ENABLED`. Every type invariant, safety invariant, action property and refinement of a passing run is
a theorem. No module declares a recursive operator.

## Where the code and its comments disagree

- `msg.c:82` (within five seconds): true for 49 days, then again for five seconds every turn of
  the counter (`msg_window`).
- `finger.h:48` (waits for the thread's safe exit): it waits 100 ms (`finger_unsafe_stop`). A start
  afterwards is no remedy: it initialises `rs485_rx_sem` a second time and halts (`drv_rs485.c:103`,
  `DevicesInit`).
- `finger.h:21` ("指纹ID，固定为0x00", the id of a match is fixed to 0): stale; `finger.c:84-96` passes the id
  the sensor gave, and so do `Finger` and `Cabinet`.
- `finger.c:641` (back to the initial screen): not when the display believes it is there already
  (`finger_screen`).
- `README.md:11` (user, operation and item together): not for a scan after one that found no tag
  (`cabinet_scan`).
- `packages/pahomqtt-latest/docs/introduction.md:34` (reconnects when the network is lost): not when
  the timeout of `select` was computed negative, 21 to 25 seconds after the last PINGRESP
  (`mqtt_silent`, `paho_mqtt_pipe.c:1074`).
- `finger.c:334` (reads until the timeout, a match or a failure): with the length 0xFFF7 for ever
  (`ReadSpins`, the exception that `SessionEnds` and `LoopGoesOn` name).

What the runs taught about the limits of some properties, where no document of the repository says
what should happen:

- A reply of the reader that lost its checksum's worth of bytes passes for a whole one, because the
  checksum is never read; `ReportWasSaid` holds all the same for one reply, and is stated so. Of two
  replies the head of one and the tail of the other can read as an item neither named, and so can one
  whose payload holds `00 01` or `00 02` before its tag.
- `Reconnects` holds only when nothing is lost: after one lost event `CONNECTING` stays set and the
  automatic reconnection never tries again (`wlan_mgnt.c:958`).
- An access point that is off while the cabinet starts is never saved, and the automatic
  reconnection knows only saved ones (`wifi.c:144`).
- A scan has two ways to keep the thread that reads the keys, with the door open: bytes that keep coming
  while the line is emptied (`rfid.c:298` has no clock), and an upload that waits for room in the pipe
  while the client is offline (`pipe.c:310`). `ScanEnds` and `LoopGoesOn` name them as exceptions, and
  `UploadReturns` says when the second ends.
- A stale `READY` (`wlan_mgnt.c:1725`) keeps the next connection from being announced; `Reconnects` asks
  for the flags, the link and the address, and does not notice that announcement missing.
- An answer of the RW007 that comes after its timeout is taken by the next command of its kind.
- When `rt_wlan_scan` fails, or the end of the scan is lost, main waits for ever (`wifi.c:108`); `MainGoesOn`
  therefore begins with the announced end of the scan.

## Not modelled

- Two handlers of `msg.c` inside one another (finger thread and shell): only the test commands of the
  console do that, and nothing says what a test during a session should do. The handlers are one
  step each.
- `rfid_scan_quick`, the upload functions of OneNET for numbers and files, its HTTP interface,
  `lcd_show_message`, `lcd_clear_screen`: no caller. `test_rfid` and `rfid_continuous_scan` initialise the
  module a second time, which halts the system.
- QoS 1 and 2, stopping and controlling the MQTT client at run time, several subscriptions: not used
  by the firmware. Message ids: written, never read.
- Failing allocations beyond "the upload fails", and the memory itself.
- The bytes of the sensor's packets; the LED; the layout of the screen; the text of the JSON.
- The access point and promiscuous modes of the WLAN management, its shell commands; the SPI
  transfers and Ethernet data of the RW007; DHCP beyond "an address comes".
- cJSON, the kernel, file systems, lwIP, the HAL, CMSIS and board files. They are vendored or generated,
  make up nearly all of the repository's 650,000 lines, and appear in the modules as the firmware
  uses them: delays, priorities, mutexes, semaphores, timers, thread deletion, assertions. This is
  why the modules cover a small share of the repository's lines and most of the firmware's own.
