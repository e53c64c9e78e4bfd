-------------------------------- MODULE RfidScan --------------------------------
(***************************************************************************)
(* applications/rfid.c over drv_rs485.c: rfid_scan_once in the finger      *)
(* thread, the bytes of the reader's reply on the line, and the two others *)
(* that take bytes from the same receive queue: the driver's own thread,   *)
(* which runs whenever the scanning thread sleeps (priority 25 below 20),  *)
(* and the console command send_start_inventory.                           *)
(*                                                                         *)
(* Bytes are numbers. A reply has the layout of the reader's frames:       *)
(* 52 46, a type, two bytes of address, the command, two bytes of length,  *)
(* the payload and a checksum, which the code never reads.                 *)
(***************************************************************************)
EXTENDS Naturals, SequencesExt

CONSTANTS Payloads,    \* payloads of a reply to the inventory command
          RX_BUF_SIZE, \* 256 in the code
          FIFO_SIZE,   \* RT_SERIAL_RB_BUFSZ, 64 in the code
          Pauses,      \* bound: after how many bytes a reply may pause
          MaxReplies,  \* bound: replies of the reader
          MaxConsole   \* bound: uses of send_start_inventory

Bytes == 0 .. 255   \* uint8_t

ASSUME RfidConstants ==
    /\ \A p \in Payloads : p \in Seq(Bytes) /\ Len(p) < 248
    /\ RX_BUF_SIZE \in Nat \ {0, 1} /\ FIFO_SIZE \in Nat \ {0}
    /\ Pauses \subseteq Nat /\ MaxReplies \in Nat /\ MaxConsole \in Nat

VARIABLES step,       \* where rfid_scan_once is
          received,   \* rx_buf up to total_received
          fifo,       \* the receive queue of the driver
          pending,    \* commands the reader has not answered
          reply,      \* the frame the reader sends, or <<>>
          coming,     \* the bytes of it that are still to come
          replies,    \* replies so far
          said,       \* history: what the reader said since the scan began, if once
          console,    \* send_start_inventory: "idle", or "waiting" 100 ms
          uses,       \* uses of it so far
          result      \* what the last scan reported to msg.c, or "nothing"

scanVars == <<step, received, result>>
lineVars == <<pending, reply, coming, replies, said>>
consoleVars == <<console, uses>>
rfidVars == <<scanVars, fifo, lineVars, consoleVars>>

Start == 33       \* 0x21
Inventory == 34   \* 0x22
Checksum == 70

NoTag == <<7, 1, 80>>
Header(cmd, n) == <<82, 70, 1, 0, 0, cmd, n \div 256, n % 256>>
Frame(cmd, payload) == Append(Header(cmd, Len(payload)) \o payload, Checksum)
Frames == {Frame(Inventory, p) : p \in Payloads} \cup {Frame(Start, <<7, 1, 0>>)}

--------------------------------------------------------------------------------
(* Parsing. Bytes are counted from 0, as in the code; what was not received *)
(* is zero, because the buffer is cleared before a scan.                    *)

Byte(data, i) == IF i < Len(data) THEN data[i + 1] ELSE 0

From(data, i) == SubSeq(data, i + 1, Len(data))

\* Offsets of 52 46; find_valid_frame takes the first.
HeaderAt(data) == {i \in 0 .. Len(data) : Byte(data, i) = 82 /\ Byte(data, i + 1) = 70}
find_valid_frame(data) == Min(HeaderAt(data))

\* Mutant of DataLen: the low byte first.
DataLenLowFirst(frame) == Byte(frame, 6) + 256 * Byte(frame, 7)

DataLen(frame) == 256 * Byte(frame, 6) + Byte(frame, 7)

\* uint16_t
TotalLen(frame) == (8 + DataLen(frame)) % 65536

\* 00 01 or 00 02 at i.
TagAt(frame, i) == Byte(frame, i) = 0 /\ Byte(frame, i + 1) \in {1, 2}
ItemAt(frame, i) == IF Byte(frame, i + 1) = 1 THEN "ITEM_1" ELSE "ITEM_2"

\* Bytes 15 and 16 name the tag; if they are no known one, the first two bytes
\* of the payload that look like one.
rfid_parse_inventory_response(frame) ==
    LET found == {i \in 8 .. 8 + DataLen(frame) : i + 1 < 8 + DataLen(frame) /\ TagAt(frame, i)}
    IN  CASE DataLen(frame) = 3 ->
                 IF SubSeq(frame, 9, 11) = NoTag THEN "NONE" ELSE "ERROR"
          [] DataLen(frame) # 3 /\ TotalLen(frame) >= 17 /\ TagAt(frame, 15) -> ItemAt(frame, 15)
          [] OTHER -> IF found = {} THEN "UNKNOWN" ELSE ItemAt(frame, Min(found))

rfid_parse_response_impl(data) ==
    IF HeaderAt(data) = {} THEN "ERROR"
    ELSE LET frame == From(data, find_valid_frame(data))
         IN  IF \/ Len(frame) < 8 \/ Byte(frame, 2) # 1
                \/ Len(frame) < TotalLen(frame)
             THEN "ERROR"
             ELSE CASE Byte(frame, 5) = Start -> "NONE"
                    [] Byte(frame, 5) = Inventory -> rfid_parse_inventory_response(frame)
                    [] OTHER -> "ERROR"

\* The test of the second phase of a scan.
Complete(data) ==
    /\ Len(data) >= 8 /\ HeaderAt(data) # {}
    /\ LET frame == From(data, find_valid_frame(data)) IN Len(frame) >= TotalLen(frame)

\* What a frame says, by its layout: the reference the parser is held against.
Meaning(frame) ==
    LET payload == SubSeq(frame, 9, Len(frame) - 1)
        tag == IF Len(payload) < 9 THEN <<>> ELSE SubSeq(payload, 8, 9)
    IN  CASE frame[6] = Start \/ payload = NoTag -> "NONE"
          [] tag = <<0, 1>> -> "ITEM_1"
          [] tag = <<0, 2>> -> "ITEM_2"
          [] OTHER -> "UNKNOWN"

--------------------------------------------------------------------------------
Results == {"ITEM_1", "ITEM_2", "UNKNOWN", "NONE", "ERROR"}

RfidInit ==
    /\ step = "idle" /\ received = <<>> /\ result = "nothing"
    /\ fifo = <<>>
    /\ pending = {} /\ reply = <<>> /\ coming = <<>> /\ replies = 0 /\ said = {}
    /\ console = "idle" /\ uses = 0

At(s) == step = s
Goto(s) == step' = s

(* rfid_scan_once *)

Begin ==
    /\ At("idle") /\ Goto("drain")
    /\ received' = <<>> /\ result' = "nothing"
    /\ said' = IF coming = <<>> THEN {} ELSE {Meaning(reply)}
    /\ UNCHANGED <<fifo, pending, reply, coming, replies, consoleVars>>

\* Mutant of Drain: the line is not read empty.
DrainsNothing ==
    /\ At("drain") /\ Goto("sending") /\ pending' = pending \cup {Inventory}
    /\ UNCHANGED <<received, result, fifo, reply, coming, replies, said, consoleVars>>

\* Until a read finds nothing, without a clock: as long as something has come
\* in within the last millisecond, the loop goes on. Then the command goes out,
\* and 95 ms go by.
Drain ==
    /\ At("drain")
    /\ IF fifo # <<>> THEN Goto("drain pause") /\ UNCHANGED pending
                      ELSE Goto("sending") /\ pending' = pending \cup {Inventory}
    /\ fifo' = <<>>
    /\ UNCHANGED <<received, result, reply, coming, replies, said, consoleVars>>

Pause == [s \in {"drain pause", "sending", "pause 1", "pause 2"} |->
             CASE s = "drain pause" -> "drain"
               [] s = "sending" \/ s = "pause 1" -> "phase 1"
               [] s = "pause 2" -> "phase 2"]

WakesUp ==
    /\ step \in DOMAIN Pause /\ Goto(Pause[step])
    /\ UNCHANGED <<received, result, fifo, lineVars, consoleVars>>

\* One byte, and on to the second phase.
Phase1Reads ==
    /\ At("phase 1")
    /\ IF fifo # <<>> THEN /\ received' = Append(received, Head(fifo))
                           /\ fifo' = Tail(fifo) /\ Goto("phase 2")
                      ELSE Goto("pause 1") /\ UNCHANGED <<received, fifo>>
    /\ UNCHANGED <<result, lineVars, consoleVars>>

Phase1Ends ==
    /\ At("phase 1") /\ Goto("phase 2")
    /\ UNCHANGED <<received, result, fifo, lineVars, consoleVars>>

\* What rt_device_read takes into the rest of the buffer.
Taken == Min({Len(fifo), RX_BUF_SIZE - Len(received) - 1})

\* Mutant of Phase2Reads: the last place of the buffer is filled, too.
Phase2FillsBuffer ==
    /\ At("phase 2") /\ fifo # <<>> /\ Len(received) < RX_BUF_SIZE
    /\ LET n == Min({Len(fifo), RX_BUF_SIZE - Len(received)})
       IN  received' = received \o SubSeq(fifo, 1, n) /\ fifo' = From(fifo, n)
    /\ Goto(IF Complete(received') THEN "evaluate" ELSE "pause 2")
    /\ UNCHANGED <<result, lineVars, consoleVars>>

Phase2Reads ==
    /\ At("phase 2") /\ Taken > 0
    /\ received' = received \o SubSeq(fifo, 1, Taken) /\ fifo' = From(fifo, Taken)
    /\ Goto(IF Complete(received') THEN "evaluate" ELSE "pause 2")
    /\ UNCHANGED <<result, lineVars, consoleVars>>

Phase2Waits ==
    /\ At("phase 2") /\ Taken = 0 /\ Goto("pause 2")
    /\ UNCHANGED <<received, result, fifo, lineVars, consoleVars>>

\* Mutant of Phase2Ends: without a byte the scan waits on.
Phase2NeedsData ==
    /\ At("phase 2") /\ received # <<>> /\ Goto("evaluate")
    /\ UNCHANGED <<received, result, fifo, lineVars, consoleVars>>

\* A second is over; or, with something received, 20 ms without a byte.
Phase2Ends ==
    /\ At("phase 2") /\ Goto("evaluate")
    /\ UNCHANGED <<received, result, fifo, lineVars, consoleVars>>

\* Without a byte there is no report.
Evaluate ==
    /\ At("evaluate") /\ Goto(IF received = <<>> THEN "idle" ELSE "report")
    /\ result' = IF received = <<>> THEN "nothing" ELSE rfid_parse_response_impl(received)
    /\ received' = <<>>
    /\ UNCHANGED <<fifo, lineVars, consoleVars>>

\* trigger_rfid_callback runs the handler of msg.c before rfid_scan_once
\* returns, and with it an upload that waits without a timeout when the pipe of
\* the MQTT client is full (pipe.c:310): the step may never come.
CallbackReturns ==
    /\ At("report") /\ Goto("idle")
    /\ UNCHANGED <<received, result, fifo, lineVars, consoleVars>>

--------------------------------------------------------------------------------
(* The line *)

\* The reader answers a command at any time, or never.
ReaderReplies ==
    /\ coming = <<>> /\ replies < MaxReplies /\ replies' = replies + 1
    /\ \E cmd \in pending :
          /\ pending' = pending \ {cmd}
          /\ reply' \in {f \in Frames : f[6] = cmd}
    /\ coming' = reply'
    /\ said' = IF said = {} THEN {Meaning(reply')} ELSE Results
    /\ UNCHANGED <<scanVars, fifo, consoleVars>>

\* What the driver's ring holds of the bytes that came in: when it would be
\* full, the oldest one goes, so that one place is always free.
Kept(bytes) == IF Len(bytes) < FIFO_SIZE THEN bytes
               ELSE From(bytes, Len(bytes) - FIFO_SIZE + 1)

\* Up to a pause, or the rest of the reply.
BytesArrive ==
    /\ LET had == Len(reply) - Len(coming)
       IN  \E n \in Pauses \cup {Len(reply)} :
              /\ n \in had + 1 .. Len(reply)
              /\ fifo' = Kept(fifo \o SubSeq(reply, had + 1, n))
              /\ coming' = SubSeq(reply, n + 1, Len(reply))
    /\ reply' = IF coming' = <<>> THEN <<>> ELSE reply
    /\ UNCHANGED <<scanVars, pending, replies, said, consoleVars>>

\* Bytes of no reply, from a disturbed line or a reader that talks unasked, for
\* as long as it pleases. Only what meets the drain is modelled: the one loop
\* that has no clock.
Noise ==
    /\ At("drain pause") /\ fifo = <<>>
    /\ fifo' = Kept(<<0>>)
    /\ UNCHANGED <<scanVars, lineVars, consoleVars>>

\* The scanning thread sleeps, or may wait in the upload.
Asleep == step \in DOMAIN Pause \cup {"idle", "report"}

\* rs485_thread_entry reads and forgets single bytes.
DriverThread ==
    /\ Asleep /\ fifo # <<>>
    /\ fifo' = Tail(fifo)
    /\ UNCHANGED <<scanVars, lineVars, consoleVars>>

send_start_inventory ==
    /\ console = "idle" /\ uses < MaxConsole
    /\ console' = "waiting" /\ uses' = uses + 1
    /\ pending' = pending \cup {Start}
    /\ UNCHANGED <<scanVars, fifo, reply, coming, replies, said>>

\* What has come in after 100 ms is printed, whomever it was for.
ConsoleReads ==
    /\ console = "waiting" /\ console' = "idle"
    /\ fifo' = <<>>
    /\ UNCHANGED <<scanVars, lineVars, uses>>

--------------------------------------------------------------------------------
ScanStep == \/ WakesUp \/ Drain \/ Phase1Ends \/ Phase1Reads
            \/ Phase2Ends \/ Phase2Waits \/ Phase2Reads \/ Evaluate

RfidNext ==
    \/ Begin \/ ScanStep \/ CallbackReturns
    \/ ReaderReplies \/ BytesArrive \/ Noise \/ DriverThread
    \/ send_start_inventory \/ ConsoleReads

RfidSpec == RfidInit /\ [][RfidNext]_rfidVars

\* The scanning thread is scheduled. Each phase asks the clock every
\* millisecond, and from some time on the clock says that the phase is over.
\* Nothing is assumed of the reader, and not that the callback returns.
RfidFairness ==
    /\ WF_rfidVars(ScanStep)
    /\ SF_rfidVars(Phase1Ends \/ Phase2Ends)

FairRfidSpec == RfidSpec /\ RfidFairness

--------------------------------------------------------------------------------
(* Properties *)

Steps == {"idle", "drain", "phase 1", "phase 2", "evaluate", "report"} \cup DOMAIN Pause

RfidTypeOK ==
    /\ step \in Steps /\ received \in Seq(Bytes) /\ Len(received) < RX_BUF_SIZE
    /\ fifo \in Seq(Bytes) /\ Len(fifo) < FIFO_SIZE
    /\ pending \subseteq {Start, Inventory}
    /\ IF coming = <<>> THEN reply = <<>>
       ELSE /\ reply \in Frames /\ Len(coming) \in 1 .. Len(reply)
            /\ coming = From(reply, Len(reply) - Len(coming))
    /\ replies \in 0 .. MaxReplies /\ said \subseteq Results
    /\ console \in {"idle", "waiting"} /\ uses \in 0 .. MaxConsole
    /\ result \in Results \cup {"nothing"}

\* Bytes stolen, late or cut off by a timeout may turn a reply into an error or
\* an unknown item (the checksum is never read, so that a frame that lost its
\* checksum's worth of bytes passes for whole), but an item, or its absence, is
\* reported only if the reader said so since the scan began: nothing left from
\* before the scan counts. This is about one reply: of two, a late one and the
\* next, the head and the tail can read as an item that neither names.
ReportWasSaid == result \in {"ITEM_1", "ITEM_2", "NONE"} => result \in said

\* A scan during which the reader said nothing reports nothing, not even an
\* error: whatever an earlier reply left on the line is gone before the command.
SilenceReportsNothing == said = {} => result = "nothing"

\* A reply that was received whole is understood, without its checksum and
\* whatever follows it.
WholeReplyIsUnderstood ==
    [][\A f \in Frames :
          Evaluate /\ IsPrefix(Front(f), received)
              => result' = Meaning(f)]_rfidVars

\* A scan gets to its end, however late, cut or stolen the replies are, and there
\* to the upload, which may keep it (rfid.c:407; when uploads return is
\* UploadReturns of Mqtt). The one exception is a line that never falls silent:
\* the drain has no clock (rfid.c:298).
ScanEnds == []<>(step \in {"idle", "report"}) \/ []<><<Noise>>_rfidVars
=================================================================================
