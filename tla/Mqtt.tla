---------------------------------- MODULE Mqtt ----------------------------------
(***************************************************************************)
(* The way of an event to the cloud: onenet_upload_event in the finger or  *)
(* the shell thread, the pipe in front of the MQTT client, and the thread  *)
(* of the client (paho_mqtt_pipe.c, pipe mode) with its connection. A step *)
(* of a thread runs from one place where it can be suspended to the next.  *)
(*                                                                         *)
(* A message of an event is MsgCells cells <<event, 1>>, <<event, 2>>, ... *)
(* of the pipe's byte stream; the first one carries the MQTTMessage header *)
(* that says how long the message is. Time appears as the choice between   *)
(* an answer and a timeout.                                                *)
(***************************************************************************)
EXTENDS Naturals, Sequences, FiniteSets

CONSTANTS Callers,      \* threads that upload events
          MsgCells,     \* cells of one message
          PipeCells,    \* PIPE_BUFSZ
          MaxUploads,   \* bound: calls of onenet_upload_event
          MaxCommands   \* bound: messages the cloud sends to the device

ASSUME MqttConstants ==
    /\ MsgCells \in Nat \ {0, 1} /\ PipeCells \in Nat
    /\ MaxUploads \in Nat /\ MaxCommands \in Nat

\* 512 bytes; a message has at most about 300: a header, a JSON text of three
\* short fields and the topic.
ASSUME MessageFitsPipe == MsgCells <= PipeCells

VARIABLES place,         \* where the thread of the client is
          isconnected,
          wait,          \* timeout of the next select: "timed" or "forever"
          sending,       \* the event in sendPacket, or 0
          pipe,          \* cells in the ring buffer
          event, rest,   \* of each caller: its event, cells still to write
          uploads,       \* calls so far; they number the events
          refused,       \* history: events whose upload returned an error
          broker,        \* what the broker makes of this device
          link,          \* the network and the broker are well
          conn,          \* "none", "open", or "closed": ended by the other side
          disturbed,     \* the link was down at some time since conn was opened
          owed,          \* requests the broker has not answered
          inbox,         \* packets to the client not read yet
          commands,      \* messages the cloud has sent
          wire, cloud    \* events sent and not arrived, and arrived

threadVars == <<place, isconnected, wait, sending>>
callerVars == <<event, rest, uploads, refused>>
netVars == <<link, conn, disturbed, owed, inbox, commands>>
mqttVars == <<threadVars, pipe, callerVars, broker, netVars, wire, cloud>>

Events == 1 .. MaxUploads
NoEvent == 0
Cells == Events \X (1 .. MsgCells)

\* With the wrong credentials the broker refuses the connection, without the
\* right to it the subscription.
Brokers == {"accepts", "refuses_device", "refuses_topic"}

MqttInit ==
    /\ place \in {"start", "exited"}   \* no memory for the client, or no pipe
    /\ isconnected = FALSE /\ wait = "timed" /\ sending = NoEvent
    /\ pipe = <<>>
    /\ event = [c \in Callers |-> NoEvent] /\ rest = [c \in Callers |-> 0]
    /\ uploads = 0 /\ refused = {}
    /\ broker \in Brokers
    /\ link \in BOOLEAN /\ conn = "none" /\ disturbed = FALSE
    /\ owed = {} /\ inbox = <<>> /\ commands = 0
    /\ wire = <<>> /\ cloud = <<>>

--------------------------------------------------------------------------------
(* onenet_upload_event *)

\* The client is not connected, or memory for the text or the message is
\* missing.
UploadFails(c) ==
    /\ place # "halted" /\ rest[c] = 0 /\ uploads < MaxUploads
    /\ uploads' = uploads + 1
    /\ refused' = refused \cup {uploads'}
    /\ UNCHANGED <<threadVars, pipe, event, rest, broker, netVars, wire, cloud>>

\* MQTTPublish up to its write: isconnected is not looked at again.
Upload(c) ==
    /\ place # "halted" /\ rest[c] = 0 /\ uploads < MaxUploads
    /\ isconnected
    /\ uploads' = uploads + 1
    /\ event' = [event EXCEPT ![c] = uploads']
    /\ rest' = [rest EXCEPT ![c] = MsgCells]
    /\ UNCHANGED <<threadVars, pipe, refused, broker, netVars, wire, cloud>>

Room == PipeCells - Len(pipe)
Shorter(a, b) == IF a < b THEN a ELSE b

\* The next n cells of the message caller c is writing.
NextCells(c, n) == [i \in 1 .. n |-> <<event[c], MsgCells - rest[c] + i>>]

\* Mutant of Write: a caller that could not write all of its message begins it
\* anew.
WriteStartsOver(c) ==
    /\ place # "halted" /\ rest[c] > 0 /\ Room > 0
    /\ LET n == Shorter(rest[c], Room) IN
          /\ pipe' = pipe \o NextCells(c, n)
          /\ rest' = [rest EXCEPT ![c] = IF n = @ THEN 0 ELSE MsgCells]
    /\ UNCHANGED <<threadVars, event, uploads, refused, broker, netVars, wire, cloud>>

\* Mutant of Write: all of the message is put in, whatever fits.
WriteOverflows(c) ==
    /\ place # "halted" /\ rest[c] > 0 /\ Room > 0
    /\ pipe' = pipe \o NextCells(c, rest[c])
    /\ rest' = [rest EXCEPT ![c] = 0]
    /\ UNCHANGED <<threadVars, event, uploads, refused, broker, netVars, wire, cloud>>

\* pipe_fops_write puts in what fits, and waits without a timeout until the
\* reader has made room for more; with nothing left to write the call returns.
Write(c) ==
    /\ place # "halted" /\ rest[c] > 0 /\ Room > 0
    /\ LET n == Shorter(rest[c], Room) IN
          /\ pipe' = pipe \o NextCells(c, n)
          /\ rest' = [rest EXCEPT ![c] = @ - n]
          /\ event' = [event EXCEPT ![c] = IF n = rest[c] THEN NoEvent ELSE @]
    /\ UNCHANGED <<threadVars, uploads, refused, broker, netVars, wire, cloud>>

--------------------------------------------------------------------------------
(* paho_mqtt_thread *)

At(p) == place = p
Goto(p) == place' = p

\* The socket becomes readable when the other side ends the connection, too.
Readable == inbox # <<>> \/ conn = "closed"

\* A wait for the broker can run out only on a connection that was disturbed.
AnswerIsLate == inbox = <<>> /\ (disturbed \/ conn = "closed")

\* MQTTConnect refuses to connect a client that is marked as connected.
NetConnect ==
    /\ At("start")
    /\ IF link /\ ~isconnected
               THEN /\ Goto("connack")
                    /\ conn' = "open" /\ disturbed' = FALSE /\ owed' = {"CONNECT"}
               ELSE /\ Goto("restart")
                    /\ UNCHANGED <<conn, disturbed, owed>>
    /\ UNCHANGED <<isconnected, wait, sending, pipe, callerVars, broker, link, inbox,
                   commands, wire, cloud>>

\* Connected, the client subscribes at once.
Connack ==
    /\ At("connack") /\ inbox # <<>>
    /\ IF Head(inbox) = "CONNACK"
       THEN /\ isconnected' = TRUE
            /\ IF conn = "open" THEN Goto("suback") /\ owed' = owed \cup {"SUBSCRIBE"}
                                ELSE Goto("disconnect") /\ UNCHANGED owed
       ELSE Goto("restart") /\ UNCHANGED <<isconnected, owed>>
    /\ inbox' = Tail(inbox)
    /\ UNCHANGED <<wait, sending, pipe, callerVars, broker, link, conn, disturbed,
                   commands, wire, cloud>>

ConnackFails ==
    /\ At("connack") /\ AnswerIsLate /\ Goto("restart")
    /\ UNCHANGED <<isconnected, wait, sending, pipe, callerVars, broker, netVars, wire, cloud>>

\* Mutant of Suback: the answer is not looked at.
SubackUnread ==
    /\ At("suback") /\ inbox # <<>>
    /\ Goto("select") /\ wait' = "timed"
    /\ inbox' = Tail(inbox)
    /\ UNCHANGED <<isconnected, sending, pipe, callerVars, broker, link, conn,
                   disturbed, owed, commands, wire, cloud>>

\* Any other packet, a command of the cloud included, counts as a failure.
Suback ==
    /\ At("suback") /\ inbox # <<>>
    /\ IF Head(inbox) = "SUBACK" THEN Goto("select") /\ wait' = "timed"
                                 ELSE Goto("disconnect") /\ UNCHANGED wait
    /\ inbox' = Tail(inbox)
    /\ UNCHANGED <<isconnected, sending, pipe, callerVars, broker, link, conn,
                   disturbed, owed, commands, wire, cloud>>

SubackFails ==
    /\ At("suback") /\ AnswerIsLate /\ Goto("disconnect")
    /\ UNCHANGED <<isconnected, wait, sending, pipe, callerVars, broker, netVars, wire, cloud>>

\* The timeout of select is the rest of 20 seconds since the last PINGRESP,
\* which from 21 to 25 seconds is negative and taken for "forever".
SelectAgain == Goto("select") /\ wait' \in {"timed", "forever"}

\* MQTT_cycle, after either select: the pipe has to wait for the next round.
SocketReadable ==
    /\ place \in {"select", "pingresp"} /\ inbox # <<>>
    /\ IF Head(inbox) = "PINGRESP" THEN Goto("select") /\ wait' = "timed"
                                   ELSE SelectAgain
    /\ inbox' = Tail(inbox)
    /\ UNCHANGED <<isconnected, sending, pipe, callerVars, broker, link, conn,
                   disturbed, owed, commands, wire, cloud>>

\* The packet ends halfway, or its acknowledgement cannot be sent.
SocketFails ==
    /\ place \in {"select", "pingresp"} /\ Readable
    /\ disturbed \/ conn = "closed"
    /\ Goto("disconnect")
    /\ UNCHANGED <<isconnected, wait, sending, pipe, callerVars, broker, netVars, wire, cloud>>

Ping ==
    /\ At("select") /\ wait = "timed"
    /\ ~Readable /\ pipe = <<>>
    /\ Goto("pingresp") /\ owed' = owed \cup {"PINGREQ"}
    /\ UNCHANGED <<isconnected, wait, sending, pipe, callerVars, broker, link, conn,
                   disturbed, inbox, commands, wire, cloud>>

\* PINGREQ cannot be sent, or nothing comes back in five seconds.
PingFails ==
    /\ At("pingresp") /\ AnswerIsLate /\ Goto("disconnect")
    /\ UNCHANGED <<isconnected, wait, sending, pipe, callerVars, broker, netVars, wire, cloud>>

StartsMessage(cell) == cell[2] = 1

\* Mutant of PipeReadable: a read buffer of one message; the rest stays.
PipeReadByMessage ==
    /\ At("select") /\ ~Readable
    /\ pipe # <<>> /\ StartsMessage(Head(pipe))
    /\ sending' = Head(pipe)[1] /\ Goto("send")
    /\ pipe' = SubSeq(pipe, MsgCells + 1, Len(pipe))
    /\ UNCHANGED <<isconnected, wait, callerVars, broker, netVars, wire, cloud>>

\* All there is in the pipe is read; the first message is sent, further ones
\* are lost.
PipeReadable ==
    /\ At("select") /\ ~Readable
    /\ pipe # <<>> /\ StartsMessage(Head(pipe))
    /\ sending' = Head(pipe)[1] /\ Goto("send")
    /\ pipe' = <<>>
    /\ UNCHANGED <<isconnected, wait, callerVars, broker, netVars, wire, cloud>>

\* The text where a header should be: ignored when it is shorter than one.
\* Otherwise a length is read from it, or, behind a short tail, from the header of
\* the next message. It leads out of the buffer, to an encoding that fails or to a
\* fault; or it is small, and something is published that is no event, to a topic
\* that is none.
TailReadable ==
    /\ At("select") /\ ~Readable
    /\ pipe # <<>> /\ ~StartsMessage(Head(pipe))
    /\ \/ SelectAgain
       \/ Goto("disconnect") /\ UNCHANGED wait
       \/ Goto("halted") /\ UNCHANGED wait
    /\ pipe' = <<>>
    /\ UNCHANGED <<isconnected, sending, callerVars, broker, netVars, wire, cloud>>

SendDone ==
    /\ At("send") /\ conn = "open"
    /\ SelectAgain
    /\ wire' = Append(wire, sending) /\ sending' = NoEvent
    /\ UNCHANGED <<isconnected, pipe, callerVars, broker, netVars, cloud>>

\* At once, or after 2000 seconds with the send buffer full.
SendFails ==
    /\ At("send") /\ (disturbed \/ conn = "closed")
    /\ Goto("disconnect") /\ sending' = NoEvent
    /\ UNCHANGED <<isconnected, wait, pipe, callerVars, broker, netVars, wire, cloud>>

\* Mutant of Disconnect: straight to the restart.
DisconnectKeepsFlag ==
    /\ At("disconnect") /\ Goto("restart")
    /\ UNCHANGED <<isconnected, wait, sending, pipe, callerVars, broker, netVars, wire, cloud>>

Disconnect ==
    /\ At("disconnect") /\ Goto("restart")
    /\ isconnected' = FALSE
    /\ UNCHANGED <<wait, sending, pipe, callerVars, broker, netVars, wire, cloud>>

\* Mutant of Restart: the thread ends with its connection.
RestartExits ==
    /\ At("restart") /\ Goto("exited")
    /\ conn' = "none" /\ owed' = {} /\ inbox' = <<>> /\ wire' = <<>>
    /\ UNCHANGED <<isconnected, wait, sending, pipe, callerVars, broker, link,
                   disturbed, commands, cloud>>

\* net_disconnect and five seconds; the pipe keeps what is in it.
Restart ==
    /\ At("restart") /\ Goto("start")
    /\ conn' = "none" /\ owed' = {} /\ inbox' = <<>> /\ wire' = <<>>
    /\ UNCHANGED <<isconnected, wait, sending, pipe, callerVars, broker, link,
                   disturbed, commands, cloud>>

--------------------------------------------------------------------------------
(* The network and the broker *)

LinkFails ==
    /\ link
    /\ link' = FALSE /\ disturbed' = TRUE
    /\ UNCHANGED <<threadVars, pipe, callerVars, broker, conn, owed, inbox, commands, wire, cloud>>

LinkReturns ==
    /\ ~link
    /\ link' = TRUE
    /\ UNCHANGED <<threadVars, pipe, callerVars, broker, conn, disturbed, owed, inbox,
                   commands, wire, cloud>>

\* The broker drops the device, or TCP gives up.
ConnectionEnds ==
    /\ ~link /\ conn = "open"
    /\ conn' = "closed" /\ wire' = <<>> /\ owed' = {}
    /\ UNCHANGED <<threadVars, pipe, callerVars, broker, link, disturbed, inbox, commands, cloud>>

Answer(request) ==
    CASE request = "CONNECT" -> IF broker = "refuses_device" THEN "REFUSED" ELSE "CONNACK"
      [] request = "SUBSCRIBE" -> IF broker = "refuses_topic" THEN "REFUSED" ELSE "SUBACK"
      [] request = "PINGREQ" -> "PINGRESP"

BrokerAnswers ==
    /\ link /\ conn = "open" /\ inbox = <<>>
    /\ \E request \in owed :
          /\ inbox' = <<Answer(request)>>
          /\ owed' = owed \ {request}
    /\ UNCHANGED <<threadVars, pipe, callerVars, broker, link, conn, disturbed, commands,
                   wire, cloud>>

CloudCommands ==
    /\ link /\ conn = "open" /\ isconnected /\ inbox = <<>>
    /\ commands < MaxCommands /\ commands' = commands + 1
    /\ inbox' = <<"PUBLISH">>
    /\ UNCHANGED <<threadVars, pipe, callerVars, broker, link, conn, disturbed, owed, wire, cloud>>

EventArrives ==
    /\ link /\ conn = "open" /\ wire # <<>>
    /\ cloud' = Append(cloud, Head(wire)) /\ wire' = Tail(wire)
    /\ UNCHANGED <<threadVars, pipe, callerVars, broker, netVars>>

--------------------------------------------------------------------------------
ClientStep ==
    \/ NetConnect \/ Connack \/ ConnackFails \/ Suback \/ SubackFails
    \/ SocketReadable \/ SocketFails \/ Ping \/ PingFails
    \/ PipeReadable \/ TailReadable \/ SendDone \/ SendFails
    \/ Disconnect \/ Restart

CallerStep == \E c \in Callers : UploadFails(c) \/ Upload(c) \/ Write(c)

Network == LinkFails \/ LinkReturns \/ ConnectionEnds
           \/ BrokerAnswers \/ CloudCommands \/ EventArrives

MqttNext == ClientStep \/ CallerStep \/ Network

MqttSpec == MqttInit /\ [][MqttNext]_mqttVars

\* The thread of the client and a caller with room in the pipe are scheduled;
\* the broker answers when the link is up; TCP does not wait for ever for an
\* acknowledgement. Nothing is assumed of the link or of the callers.
MqttFairness ==
    /\ WF_mqttVars(ClientStep)
    /\ \A c \in Callers : WF_mqttVars(Write(c))
    /\ WF_mqttVars(BrokerAnswers)
    /\ WF_mqttVars(ConnectionEnds /\ (wire # <<>> \/ owed # {}))

FairMqttSpec == MqttSpec /\ MqttFairness

--------------------------------------------------------------------------------
(* Properties *)

Places == {"start", "connack", "suback", "select", "pingresp", "send", "disconnect",
           "restart", "exited", "halted"}
Packets == {"CONNACK", "SUBACK", "PINGRESP", "PUBLISH", "REFUSED"}

ThreadTypeOK ==
    /\ place \in Places /\ isconnected \in BOOLEAN
    /\ wait \in {"timed", "forever"} /\ sending \in Events \cup {NoEvent}

PipeTypeOK == pipe \in Seq(Cells) /\ Len(pipe) <= PipeCells

CallerTypeOK ==
    /\ event \in [Callers -> Events \cup {NoEvent}]
    /\ rest \in [Callers -> 0 .. MsgCells]
    /\ uploads \in 0 .. MaxUploads /\ refused \subseteq Events

NetTypeOK ==
    /\ link \in BOOLEAN
    /\ conn \in {"none", "open", "closed"} /\ disturbed \in BOOLEAN
    /\ owed \subseteq {"CONNECT", "SUBSCRIBE", "PINGREQ"}
    /\ inbox \in Seq(Packets)
    /\ commands \in 0 .. MaxCommands

WireTypeOK == wire \in Seq(Events) /\ cloud \in Seq(Events)

MqttTypeOK == /\ ThreadTypeOK /\ PipeTypeOK /\ CallerTypeOK /\ NetTypeOK /\ WireTypeOK
              /\ broker \in Brokers

\* A header at the front of the pipe is followed by the whole of its message,
\* so nothing is ever sent that two events were mixed in, although writers
\* block in the middle of a message and others write on (pipe.c:276-312).
FrontIsWhole ==
    pipe # <<>> /\ StartsMessage(pipe[1]) =>
        /\ Len(pipe) >= MsgCells
        /\ \A i \in 1 .. MsgCells : pipe[i] = <<pipe[1][1], i>>

\* An event is sent only while the client is connected and its subscription
\* granted; an upload that was under way when a session broke off waits in the
\* pipe for the next one.
SentInSession == place \in {"select", "pingresp", "send"} => isconnected /\ broker = "accepts"

\* The events whose messages begin in cells, in order. An event is at the k-th
\* place when its first cell is the k-th of the first cells.
Starts(cells) == {i \in DOMAIN cells : StartsMessage(cells[i])}
StartsUpTo(cells, i) == {j \in Starts(cells) : j <= i}
KthStart(cells, k) == {i \in Starts(cells) : Cardinality(StartsUpTo(cells, i)) = k}
EventsStarted(cells) ==
    [k \in 1 .. Cardinality(Starts(cells)) |->
        CHOOSE e \in Events : \E i \in KthStart(cells, k) : cells[i][1] = e]

\* Taken into the pipe: begun by a caller that was not refused.
Entered ==
    {e \in 1 .. uploads :
        e \notin refused /\ ~\E c \in Callers : event[c] = e /\ rest[c] = MsgCells}

InSend == IF place = "send" THEN <<sending>> ELSE <<>>
Underway == wire \o InSend \o EventsStarted(pipe)

Uplink == INSTANCE Uplink WITH entered <- Entered, underway <- Underway

\* However connections break and callers block, events arrive in the order in
\* which they entered the pipe, once, and none whose upload was refused.
ImplementsUplink == Uplink!UplinkSpec

\* When the network is well from some time on, the client comes back to its
\* session again and again, whatever went wrong before; unless the remains of
\* a message halt the system.
ComesBackOnline ==
    place = "start" /\ broker = "accepts" /\ <>[]link
        => []<>(place \in {"select", "halted"})

\* When the network is well from some time on, every upload returns to the
\* thread that reads the keys. A pipe nobody reads holds it for as long as the
\* network is down.
UploadReturns ==
    broker = "accepts" /\ <>[]link =>
        \A c \in Callers : rest[c] > 0 ~> rest[c] = 0 \/ place = "halted"

\* pahomqtt docs/introduction.md:34: when the network is lost the client
\* reconnects; so a link that stays down does not leave the client in the
\* belief that it is connected.
DeadLinkIsNoticed == <>[](~link) => <>[](~isconnected)
=================================================================================
