------------------------------- MODULE MqttProofs -------------------------------
(* Proofs about Mqtt, for every set of callers, every size of the pipe and of *)
(* a message that fits into it, and every number of uploads and commands.    *)
EXTENDS Mqtt, TLAPS, FiniteSetTheorems, SequenceTheorems

--------------------------------------------------------------------------------
(* The inductive invariant *)

\* A caller that still writes has an event, and so has a send.
WritersHaveEvents == \A c \in Callers : rest[c] > 0 => event[c] \in Events
SendHasEvent == place = "send" => sending \in Events

\* One packet at a time comes in, and the broker grants what it said it would.
Granted ==
    /\ Len(inbox) <= 1
    /\ inbox # <<>> => /\ Head(inbox) = "CONNACK" => broker # "refuses_device"
                       /\ Head(inbox) = "SUBACK" => broker # "refuses_topic"
    /\ place = "suback" => isconnected /\ broker # "refuses_device"

MqttInv == /\ MqttTypeOK /\ WritersHaveEvents /\ SendHasEvent
           /\ Granted /\ SentInSession /\ FrontIsWhole

--------------------------------------------------------------------------------
(* The cells of a message *)

\* What a caller writes next: no more than there is room for, of its event.
LEMMA NextCellsType ==
    ASSUME MqttTypeOK, NEW c \in Callers, rest[c] > 0, event[c] \in Events, Room > 0
    PROVE  LET n == Shorter(rest[c], Room) IN
              /\ n \in 1 .. rest[c] /\ n <= Room
              /\ NextCells(c, n) \in Seq(Cells) /\ Len(NextCells(c, n)) = n
<1>1. rest[c] \in 1 .. MsgCells /\ Room \in Nat /\ MsgCells \in Nat
    BY MqttConstants DEF MqttTypeOK, CallerTypeOK, PipeTypeOK, Room
<1> DEFINE n == Shorter(rest[c], Room)
<1>2. n \in 1 .. rest[c] /\ n <= Room
    BY <1>1 DEF Shorter
<1>3. \A i \in 1 .. n : <<event[c], MsgCells - rest[c] + i>> \in Cells
    BY <1>1, <1>2 DEF Cells
<1>4. NextCells(c, n) \in [1 .. n -> Cells]
    BY <1>3 DEF NextCells
<1>5. NextCells(c, n) \in Seq(Cells) /\ Len(NextCells(c, n)) = n
    BY <1>2, <1>4, <1>1
<1>6. QED
    BY <1>2, <1>5

\* pipe_fops_write: it writes what is left or what there is room for.
LEMMA WriteFacts ==
    ASSUME MqttTypeOK, WritersHaveEvents, NEW c \in Callers, Write(c)
    PROVE  /\ rest[c] \in 1 .. MsgCells /\ event[c] \in Events
           /\ Room \in Nat \ {0} /\ Room = PipeCells - Len(pipe)
           /\ \E n \in 1 .. rest[c] :
                 /\ n <= Room /\ (n = rest[c] \/ n = Room)
                 /\ NextCells(c, n) \in Seq(Cells) /\ Len(NextCells(c, n)) = n
                 /\ pipe' = pipe \o NextCells(c, n)
                 /\ rest' = [rest EXCEPT ![c] = @ - n]
                 /\ event' = [event EXCEPT ![c] = IF n = rest[c] THEN NoEvent ELSE @]
<1> DEFINE n == Shorter(rest[c], Room)
<1>1. rest[c] > 0 /\ Room > 0
    BY DEF Write
<1>2. event[c] \in Events
    BY <1>1 DEF WritersHaveEvents
<1>3. rest[c] \in 1 .. MsgCells /\ Room \in Nat \ {0} /\ Room = PipeCells - Len(pipe)
    BY <1>1, MqttConstants DEF MqttTypeOK, CallerTypeOK, PipeTypeOK, Room
<1>4. /\ n \in 1 .. rest[c] /\ n <= Room
      /\ NextCells(c, n) \in Seq(Cells) /\ Len(NextCells(c, n)) = n
    BY <1>1, <1>2, NextCellsType
<1>5. n = rest[c] \/ n = Room
    BY DEF Shorter
<1>6. /\ pipe' = pipe \o NextCells(c, n)
      /\ rest' = [rest EXCEPT ![c] = @ - n]
      /\ event' = [event EXCEPT ![c] = IF n = rest[c] THEN NoEvent ELSE @]
    BY DEF Write
<1>7. QED
    BY <1>2, <1>3, <1>4, <1>5, <1>6

--------------------------------------------------------------------------------
LEMMA ThreadTypeStep ==
    ASSUME MqttInv, MqttNext
    PROVE  ThreadTypeOK'
<1> USE DEF MqttInv, MqttTypeOK, Goto, At, threadVars, callerVars, netVars, mqttVars, ThreadTypeOK, Places, SelectAgain, WritersHaveEvents
<1>1. CASE NetConnect
    BY <1>1 DEF NetConnect
<1>2. CASE Connack
    BY <1>2 DEF Connack
<1>3. CASE ConnackFails
    BY <1>3 DEF ConnackFails
<1>4. CASE Suback
    BY <1>4 DEF Suback
<1>5. CASE SubackFails
    BY <1>5 DEF SubackFails
<1>6. CASE SocketReadable
    BY <1>6 DEF SocketReadable
<1>7. CASE SocketFails
    BY <1>7 DEF SocketFails
<1>8. CASE Ping
    BY <1>8 DEF Ping
<1>9. CASE PingFails
    BY <1>9 DEF PingFails
<1>10. CASE PipeReadable
    BY <1>10 DEF PipeReadable, PipeTypeOK, Cells
<1>11. CASE TailReadable
    BY <1>11 DEF TailReadable
<1>12. CASE SendDone
    BY <1>12 DEF SendDone
<1>13. CASE SendFails
    BY <1>13 DEF SendFails
<1>14. CASE Disconnect
    BY <1>14 DEF Disconnect
<1>15. CASE Restart
    BY <1>15 DEF Restart
<1>16. CASE LinkFails
    BY <1>16 DEF LinkFails
<1>17. CASE LinkReturns
    BY <1>17 DEF LinkReturns
<1>18. CASE ConnectionEnds
    BY <1>18 DEF ConnectionEnds
<1>19. CASE BrokerAnswers
    BY <1>19 DEF BrokerAnswers
<1>20. CASE CloudCommands
    BY <1>20 DEF CloudCommands
<1>21. CASE EventArrives
    BY <1>21 DEF EventArrives
<1>22. ASSUME NEW c \in Callers, UploadFails(c) PROVE ThreadTypeOK'
    BY <1>22 DEF UploadFails
<1>23. ASSUME NEW c \in Callers, Upload(c) PROVE ThreadTypeOK'
    BY <1>23 DEF Upload
<1>24. ASSUME NEW c \in Callers, Write(c) PROVE ThreadTypeOK'
    BY <1>24 DEF Write
<1>25. QED
    BY <1>1, <1>2, <1>3, <1>4, <1>5, <1>6, <1>7, <1>8, <1>9, <1>10, <1>11, <1>12, <1>13, <1>14, <1>15, <1>16, <1>17, <1>18, <1>19, <1>20, <1>21, <1>22, <1>23, <1>24 DEF MqttNext, ClientStep, CallerStep, Network

LEMMA CallerTypeStep ==
    ASSUME MqttInv, MqttNext
    PROVE  CallerTypeOK'
<1> USE MqttConstants DEF MqttInv, MqttTypeOK, Goto, At, threadVars, callerVars, netVars, mqttVars, CallerTypeOK, Events, NoEvent
<1>1. CASE NetConnect
    BY <1>1 DEF NetConnect
<1>2. CASE Connack
    BY <1>2 DEF Connack
<1>3. CASE ConnackFails
    BY <1>3 DEF ConnackFails
<1>4. CASE Suback
    BY <1>4 DEF Suback
<1>5. CASE SubackFails
    BY <1>5 DEF SubackFails
<1>6. CASE SocketReadable
    BY <1>6 DEF SocketReadable
<1>7. CASE SocketFails
    BY <1>7 DEF SocketFails
<1>8. CASE Ping
    BY <1>8 DEF Ping
<1>9. CASE PingFails
    BY <1>9 DEF PingFails
<1>10. CASE PipeReadable
    BY <1>10 DEF PipeReadable
<1>11. CASE TailReadable
    BY <1>11 DEF TailReadable
<1>12. CASE SendDone
    BY <1>12 DEF SendDone
<1>13. CASE SendFails
    BY <1>13 DEF SendFails
<1>14. CASE Disconnect
    BY <1>14 DEF Disconnect
<1>15. CASE Restart
    BY <1>15 DEF Restart
<1>16. CASE LinkFails
    BY <1>16 DEF LinkFails
<1>17. CASE LinkReturns
    BY <1>17 DEF LinkReturns
<1>18. CASE ConnectionEnds
    BY <1>18 DEF ConnectionEnds
<1>19. CASE BrokerAnswers
    BY <1>19 DEF BrokerAnswers
<1>20. CASE CloudCommands
    BY <1>20 DEF CloudCommands
<1>21. CASE EventArrives
    BY <1>21 DEF EventArrives
<1>22. ASSUME NEW c \in Callers, UploadFails(c) PROVE CallerTypeOK'
    BY <1>22 DEF UploadFails
<1>23. ASSUME NEW c \in Callers, Upload(c) PROVE CallerTypeOK'
    BY <1>23 DEF Upload
<1>24. ASSUME NEW c \in Callers, Write(c) PROVE CallerTypeOK'
  <2>1. rest[c] \in 1 .. MsgCells /\ UNCHANGED <<uploads, refused>>
    BY <1>24, WriteFacts DEF Write
  <2>2. PICK n \in 1 .. rest[c] :
             /\ rest' = [rest EXCEPT ![c] = @ - n]
             /\ event' = [event EXCEPT ![c] = IF n = rest[c] THEN NoEvent ELSE @]
    BY <1>24, WriteFacts
  <2>3. rest[c] - n \in 0 .. MsgCells
    BY <2>1, <2>2
  <2>4. QED
    BY <2>1, <2>2, <2>3
<1>25. QED
    BY <1>1, <1>2, <1>3, <1>4, <1>5, <1>6, <1>7, <1>8, <1>9, <1>10, <1>11, <1>12, <1>13, <1>14, <1>15, <1>16, <1>17, <1>18, <1>19, <1>20, <1>21, <1>22, <1>23, <1>24 DEF MqttNext, ClientStep, CallerStep, Network

LEMMA NetTypeStep ==
    ASSUME MqttInv, MqttNext
    PROVE  NetTypeOK'
<1> USE MqttConstants DEF MqttInv, MqttTypeOK, Goto, At, threadVars, callerVars, netVars, mqttVars, NetTypeOK, Packets
<1>1. CASE NetConnect
    BY <1>1 DEF NetConnect
<1>2. CASE Connack
  <2>1. Tail(inbox) \in Seq(Packets)
    BY <1>2 DEF Connack
  <2>2. owed' \subseteq {"CONNECT", "SUBSCRIBE", "PINGREQ"}
    BY <1>2 DEF Connack
  <2>3. inbox' = Tail(inbox) /\ UNCHANGED <<link, conn, disturbed, commands>>
    BY <1>2 DEF Connack
  <2>4. QED
    BY <2>1, <2>2, <2>3
<1>3. CASE ConnackFails
    BY <1>3 DEF ConnackFails
<1>4. CASE Suback
    BY <1>4 DEF Suback
<1>5. CASE SubackFails
    BY <1>5 DEF SubackFails
<1>6. CASE SocketReadable
    BY <1>6 DEF SocketReadable
<1>7. CASE SocketFails
    BY <1>7 DEF SocketFails
<1>8. CASE Ping
    BY <1>8 DEF Ping
<1>9. CASE PingFails
    BY <1>9 DEF PingFails
<1>10. CASE PipeReadable
    BY <1>10 DEF PipeReadable
<1>11. CASE TailReadable
    BY <1>11 DEF TailReadable
<1>12. CASE SendDone
    BY <1>12 DEF SendDone
<1>13. CASE SendFails
    BY <1>13 DEF SendFails
<1>14. CASE Disconnect
    BY <1>14 DEF Disconnect
<1>15. CASE Restart
    BY <1>15 DEF Restart
<1>16. CASE LinkFails
    BY <1>16 DEF LinkFails
<1>17. CASE LinkReturns
    BY <1>17 DEF LinkReturns
<1>18. CASE ConnectionEnds
    BY <1>18 DEF ConnectionEnds
<1>19. CASE BrokerAnswers
  <2>1. PICK request \in owed : inbox' = <<Answer(request)>> /\ owed' = owed \ {request}
    BY <1>19 DEF BrokerAnswers
  <2>2. Answer(request) \in Packets
    BY <2>1 DEF Answer
  <2>3. QED
    BY <1>19, <2>1, <2>2 DEF BrokerAnswers
<1>20. CASE CloudCommands
    BY <1>20 DEF CloudCommands
<1>21. CASE EventArrives
    BY <1>21 DEF EventArrives
<1>22. ASSUME NEW c \in Callers, UploadFails(c) PROVE NetTypeOK'
    BY <1>22 DEF UploadFails
<1>23. ASSUME NEW c \in Callers, Upload(c) PROVE NetTypeOK'
    BY <1>23 DEF Upload
<1>24. ASSUME NEW c \in Callers, Write(c) PROVE NetTypeOK'
    BY <1>24 DEF Write
<1>25. QED
    BY <1>1, <1>2, <1>3, <1>4, <1>5, <1>6, <1>7, <1>8, <1>9, <1>10, <1>11, <1>12, <1>13, <1>14, <1>15, <1>16, <1>17, <1>18, <1>19, <1>20, <1>21, <1>22, <1>23, <1>24 DEF MqttNext, ClientStep, CallerStep, Network

LEMMA WireTypeStep ==
    ASSUME MqttInv, MqttNext
    PROVE  WireTypeOK'
<1> USE DEF MqttInv, MqttTypeOK, Goto, At, threadVars, callerVars, netVars, mqttVars, WireTypeOK, SendHasEvent
<1>1. CASE NetConnect
    BY <1>1 DEF NetConnect
<1>2. CASE Connack
    BY <1>2 DEF Connack
<1>3. CASE ConnackFails
    BY <1>3 DEF ConnackFails
<1>4. CASE Suback
    BY <1>4 DEF Suback
<1>5. CASE SubackFails
    BY <1>5 DEF SubackFails
<1>6. CASE SocketReadable
    BY <1>6 DEF SocketReadable
<1>7. CASE SocketFails
    BY <1>7 DEF SocketFails
<1>8. CASE Ping
    BY <1>8 DEF Ping
<1>9. CASE PingFails
    BY <1>9 DEF PingFails
<1>10. CASE PipeReadable
    BY <1>10 DEF PipeReadable
<1>11. CASE TailReadable
    BY <1>11 DEF TailReadable
<1>12. CASE SendDone
    BY <1>12 DEF SendDone
<1>13. CASE SendFails
    BY <1>13 DEF SendFails
<1>14. CASE Disconnect
    BY <1>14 DEF Disconnect
<1>15. CASE Restart
    BY <1>15 DEF Restart
<1>16. CASE LinkFails
    BY <1>16 DEF LinkFails
<1>17. CASE LinkReturns
    BY <1>17 DEF LinkReturns
<1>18. CASE ConnectionEnds
    BY <1>18 DEF ConnectionEnds
<1>19. CASE BrokerAnswers
    BY <1>19 DEF BrokerAnswers
<1>20. CASE CloudCommands
    BY <1>20 DEF CloudCommands
<1>21. CASE EventArrives
    BY <1>21 DEF EventArrives
<1>22. ASSUME NEW c \in Callers, UploadFails(c) PROVE WireTypeOK'
    BY <1>22 DEF UploadFails
<1>23. ASSUME NEW c \in Callers, Upload(c) PROVE WireTypeOK'
    BY <1>23 DEF Upload
<1>24. ASSUME NEW c \in Callers, Write(c) PROVE WireTypeOK'
    BY <1>24 DEF Write
<1>25. QED
    BY <1>1, <1>2, <1>3, <1>4, <1>5, <1>6, <1>7, <1>8, <1>9, <1>10, <1>11, <1>12, <1>13, <1>14, <1>15, <1>16, <1>17, <1>18, <1>19, <1>20, <1>21, <1>22, <1>23, <1>24 DEF MqttNext, ClientStep, CallerStep, Network

LEMMA PipeTypeStep ==
    ASSUME MqttInv, MqttNext
    PROVE  PipeTypeOK'
<1> USE MqttConstants DEF MqttInv, MqttTypeOK, Goto, At, threadVars, callerVars, netVars, mqttVars, PipeTypeOK
<1>1. CASE NetConnect
    BY <1>1 DEF NetConnect
<1>2. CASE Connack
    BY <1>2 DEF Connack
<1>3. CASE ConnackFails
    BY <1>3 DEF ConnackFails
<1>4. CASE Suback
    BY <1>4 DEF Suback
<1>5. CASE SubackFails
    BY <1>5 DEF SubackFails
<1>6. CASE SocketReadable
    BY <1>6 DEF SocketReadable
<1>7. CASE SocketFails
    BY <1>7 DEF SocketFails
<1>8. CASE Ping
    BY <1>8 DEF Ping
<1>9. CASE PingFails
    BY <1>9 DEF PingFails
<1>10. CASE PipeReadable
    BY <1>10 DEF PipeReadable
<1>11. CASE TailReadable
    BY <1>11 DEF TailReadable
<1>12. CASE SendDone
    BY <1>12 DEF SendDone
<1>13. CASE SendFails
    BY <1>13 DEF SendFails
<1>14. CASE Disconnect
    BY <1>14 DEF Disconnect
<1>15. CASE Restart
    BY <1>15 DEF Restart
<1>16. CASE LinkFails
    BY <1>16 DEF LinkFails
<1>17. CASE LinkReturns
    BY <1>17 DEF LinkReturns
<1>18. CASE ConnectionEnds
    BY <1>18 DEF ConnectionEnds
<1>19. CASE BrokerAnswers
    BY <1>19 DEF BrokerAnswers
<1>20. CASE CloudCommands
    BY <1>20 DEF CloudCommands
<1>21. CASE EventArrives
    BY <1>21 DEF EventArrives
<1>22. ASSUME NEW c \in Callers, UploadFails(c) PROVE PipeTypeOK'
    BY <1>22 DEF UploadFails
<1>23. ASSUME NEW c \in Callers, Upload(c) PROVE PipeTypeOK'
    BY <1>23 DEF Upload
<1>24. ASSUME NEW c \in Callers, Write(c) PROVE PipeTypeOK'
  <2>1. PICK n \in 1 .. rest[c] :
             /\ n <= Room /\ pipe' = pipe \o NextCells(c, n)
             /\ NextCells(c, n) \in Seq(Cells) /\ Len(NextCells(c, n)) = n
    BY <1>24, WriteFacts
  <2>2. rest[c] \in Nat /\ Room = PipeCells - Len(pipe)
    BY <1>24, WriteFacts
  <2>3. QED
    BY <2>1, <2>2
<1>25. QED
    BY <1>1, <1>2, <1>3, <1>4, <1>5, <1>6, <1>7, <1>8, <1>9, <1>10, <1>11, <1>12, <1>13, <1>14, <1>15, <1>16, <1>17, <1>18, <1>19, <1>20, <1>21, <1>22, <1>23, <1>24 DEF MqttNext, ClientStep, CallerStep, Network

LEMMA WritersStep ==
    ASSUME MqttInv, MqttNext
    PROVE  WritersHaveEvents'
<1> USE MqttConstants DEF MqttInv, MqttTypeOK, Goto, At, threadVars, callerVars, netVars, mqttVars, WritersHaveEvents
<1>1. CASE NetConnect
    BY <1>1 DEF NetConnect
<1>2. CASE Connack
    BY <1>2 DEF Connack
<1>3. CASE ConnackFails
    BY <1>3 DEF ConnackFails
<1>4. CASE Suback
    BY <1>4 DEF Suback
<1>5. CASE SubackFails
    BY <1>5 DEF SubackFails
<1>6. CASE SocketReadable
    BY <1>6 DEF SocketReadable
<1>7. CASE SocketFails
    BY <1>7 DEF SocketFails
<1>8. CASE Ping
    BY <1>8 DEF Ping
<1>9. CASE PingFails
    BY <1>9 DEF PingFails
<1>10. CASE PipeReadable
    BY <1>10 DEF PipeReadable
<1>11. CASE TailReadable
    BY <1>11 DEF TailReadable
<1>12. CASE SendDone
    BY <1>12 DEF SendDone
<1>13. CASE SendFails
    BY <1>13 DEF SendFails
<1>14. CASE Disconnect
    BY <1>14 DEF Disconnect
<1>15. CASE Restart
    BY <1>15 DEF Restart
<1>16. CASE LinkFails
    BY <1>16 DEF LinkFails
<1>17. CASE LinkReturns
    BY <1>17 DEF LinkReturns
<1>18. CASE ConnectionEnds
    BY <1>18 DEF ConnectionEnds
<1>19. CASE BrokerAnswers
    BY <1>19 DEF BrokerAnswers
<1>20. CASE CloudCommands
    BY <1>20 DEF CloudCommands
<1>21. CASE EventArrives
    BY <1>21 DEF EventArrives
<1>22. ASSUME NEW c \in Callers, UploadFails(c) PROVE WritersHaveEvents'
    BY <1>22 DEF UploadFails
<1>23. ASSUME NEW c \in Callers, Upload(c) PROVE WritersHaveEvents'
    BY <1>23 DEF Upload, CallerTypeOK, Events
<1>24. ASSUME NEW c \in Callers, Write(c) PROVE WritersHaveEvents'
  <2>1. rest[c] \in 1 .. MsgCells /\ event[c] \in Events
    BY <1>24, WriteFacts
  <2>2. PICK n \in 1 .. rest[c] :
             /\ rest' = [rest EXCEPT ![c] = @ - n]
             /\ event' = [event EXCEPT ![c] = IF n = rest[c] THEN NoEvent ELSE @]
    BY <1>24, WriteFacts
  <2>3. n = rest[c] => rest[c] - n = 0
    BY <2>1, <2>2
  <2>4. QED
    BY <2>1, <2>2, <2>3 DEF CallerTypeOK
<1>25. QED
    BY <1>1, <1>2, <1>3, <1>4, <1>5, <1>6, <1>7, <1>8, <1>9, <1>10, <1>11, <1>12, <1>13, <1>14, <1>15, <1>16, <1>17, <1>18, <1>19, <1>20, <1>21, <1>22, <1>23, <1>24 DEF MqttNext, ClientStep, CallerStep, Network

LEMMA SendStep ==
    ASSUME MqttInv, MqttNext
    PROVE  SendHasEvent'
<1> USE DEF MqttInv, MqttTypeOK, Goto, At, threadVars, callerVars, netVars, mqttVars, SendHasEvent
<1>1. CASE NetConnect
    BY <1>1 DEF NetConnect
<1>2. CASE Connack
    BY <1>2 DEF Connack
<1>3. CASE ConnackFails
    BY <1>3 DEF ConnackFails
<1>4. CASE Suback
    BY <1>4 DEF Suback
<1>5. CASE SubackFails
    BY <1>5 DEF SubackFails
<1>6. CASE SocketReadable
    BY <1>6 DEF SocketReadable, SelectAgain
<1>7. CASE SocketFails
    BY <1>7 DEF SocketFails
<1>8. CASE Ping
    BY <1>8 DEF Ping
<1>9. CASE PingFails
    BY <1>9 DEF PingFails
<1>10. CASE PipeReadable
    BY <1>10 DEF PipeReadable, PipeTypeOK, Cells
<1>11. CASE TailReadable
    BY <1>11 DEF TailReadable, SelectAgain
<1>12. CASE SendDone
    BY <1>12 DEF SendDone, SelectAgain
<1>13. CASE SendFails
    BY <1>13 DEF SendFails
<1>14. CASE Disconnect
    BY <1>14 DEF Disconnect
<1>15. CASE Restart
    BY <1>15 DEF Restart
<1>16. CASE LinkFails
    BY <1>16 DEF LinkFails
<1>17. CASE LinkReturns
    BY <1>17 DEF LinkReturns
<1>18. CASE ConnectionEnds
    BY <1>18 DEF ConnectionEnds
<1>19. CASE BrokerAnswers
    BY <1>19 DEF BrokerAnswers
<1>20. CASE CloudCommands
    BY <1>20 DEF CloudCommands
<1>21. CASE EventArrives
    BY <1>21 DEF EventArrives
<1>22. ASSUME NEW c \in Callers, UploadFails(c) PROVE SendHasEvent'
    BY <1>22 DEF UploadFails
<1>23. ASSUME NEW c \in Callers, Upload(c) PROVE SendHasEvent'
    BY <1>23 DEF Upload
<1>24. ASSUME NEW c \in Callers, Write(c) PROVE SendHasEvent'
    BY <1>24 DEF Write
<1>25. QED
    BY <1>1, <1>2, <1>3, <1>4, <1>5, <1>6, <1>7, <1>8, <1>9, <1>10, <1>11, <1>12, <1>13, <1>14, <1>15, <1>16, <1>17, <1>18, <1>19, <1>20, <1>21, <1>22, <1>23, <1>24 DEF MqttNext, ClientStep, CallerStep, Network

\* The last packet is taken.
LEMMA LastPacket ==
    ASSUME NetTypeOK, Len(inbox) <= 1, inbox # <<>>
    PROVE  Tail(inbox) = <<>> /\ Head(inbox) = inbox[1]
    BY DEF NetTypeOK

LEMMA GrantedStep ==
    ASSUME MqttInv, MqttNext
    PROVE  Granted'
<1> USE DEF MqttInv, MqttTypeOK, Goto, At, threadVars, callerVars, netVars, mqttVars, Granted, NetTypeOK
<1>1. CASE NetConnect
    BY <1>1 DEF NetConnect
<1>2. CASE Connack
    BY <1>2, LastPacket DEF Connack
<1>3. CASE ConnackFails
    BY <1>3 DEF ConnackFails
<1>4. CASE Suback
    BY <1>4, LastPacket DEF Suback
<1>5. CASE SubackFails
    BY <1>5 DEF SubackFails
<1>6. CASE SocketReadable
    BY <1>6, LastPacket DEF SocketReadable, SelectAgain
<1>7. CASE SocketFails
    BY <1>7 DEF SocketFails
<1>8. CASE Ping
    BY <1>8 DEF Ping
<1>9. CASE PingFails
    BY <1>9 DEF PingFails
<1>10. CASE PipeReadable
    BY <1>10 DEF PipeReadable
<1>11. CASE TailReadable
    BY <1>11 DEF TailReadable, SelectAgain
<1>12. CASE SendDone
    BY <1>12 DEF SendDone, SelectAgain
<1>13. CASE SendFails
    BY <1>13 DEF SendFails
<1>14. CASE Disconnect
    BY <1>14 DEF Disconnect
<1>15. CASE Restart
  <2>1. Len(inbox') = 0 /\ inbox' = <<>> /\ place' = "start"
    BY <1>15 DEF Restart
  <2>2. QED
    BY <2>1
<1>16. CASE LinkFails
    BY <1>16 DEF LinkFails
<1>17. CASE LinkReturns
    BY <1>17 DEF LinkReturns
<1>18. CASE ConnectionEnds
    BY <1>18 DEF ConnectionEnds
<1>19. CASE BrokerAnswers
  <2>1. PICK request \in owed : inbox' = <<Answer(request)>>
    BY <1>19 DEF BrokerAnswers
  <2>2. Len(inbox') = 1 /\ Head(inbox') = Answer(request)
    BY <2>1
  <2>3. /\ Answer(request) = "CONNACK" => broker # "refuses_device"
        /\ Answer(request) = "SUBACK" => broker # "refuses_topic"
    BY DEF Answer
  <2>4. UNCHANGED <<place, isconnected, broker>>
    BY <1>19 DEF BrokerAnswers
  <2>5. QED
    BY <2>2, <2>3, <2>4
<1>20. CASE CloudCommands
  <2>1. Len(inbox') = 1 /\ Head(inbox') = "PUBLISH"
    BY <1>20 DEF CloudCommands
  <2>2. QED
    BY <1>20, <2>1 DEF CloudCommands
<1>21. CASE EventArrives
    BY <1>21 DEF EventArrives
<1>22. ASSUME NEW c \in Callers, UploadFails(c) PROVE Granted'
    BY <1>22 DEF UploadFails
<1>23. ASSUME NEW c \in Callers, Upload(c) PROVE Granted'
    BY <1>23 DEF Upload
<1>24. ASSUME NEW c \in Callers, Write(c) PROVE Granted'
    BY <1>24 DEF Write
<1>25. QED
    BY <1>1, <1>2, <1>3, <1>4, <1>5, <1>6, <1>7, <1>8, <1>9, <1>10, <1>11, <1>12, <1>13, <1>14, <1>15, <1>16, <1>17, <1>18, <1>19, <1>20, <1>21, <1>22, <1>23, <1>24 DEF MqttNext, ClientStep, CallerStep, Network

LEMMA SentInSessionStep ==
    ASSUME MqttInv, MqttNext
    PROVE  SentInSession'
<1> USE DEF MqttInv, MqttTypeOK, Goto, At, threadVars, callerVars, netVars, mqttVars, SentInSession, Granted, Brokers
<1>1. CASE NetConnect
    BY <1>1 DEF NetConnect
<1>2. CASE Connack
    BY <1>2 DEF Connack
<1>3. CASE ConnackFails
    BY <1>3 DEF ConnackFails
<1>4. CASE Suback
    BY <1>4 DEF Suback
<1>5. CASE SubackFails
    BY <1>5 DEF SubackFails
<1>6. CASE SocketReadable
    BY <1>6 DEF SocketReadable, SelectAgain
<1>7. CASE SocketFails
    BY <1>7 DEF SocketFails
<1>8. CASE Ping
    BY <1>8 DEF Ping
<1>9. CASE PingFails
    BY <1>9 DEF PingFails
<1>10. CASE PipeReadable
    BY <1>10 DEF PipeReadable
<1>11. CASE TailReadable
    BY <1>11 DEF TailReadable, SelectAgain
<1>12. CASE SendDone
    BY <1>12 DEF SendDone, SelectAgain
<1>13. CASE SendFails
    BY <1>13 DEF SendFails
<1>14. CASE Disconnect
    BY <1>14 DEF Disconnect
<1>15. CASE Restart
    BY <1>15 DEF Restart
<1>16. CASE LinkFails
    BY <1>16 DEF LinkFails
<1>17. CASE LinkReturns
    BY <1>17 DEF LinkReturns
<1>18. CASE ConnectionEnds
    BY <1>18 DEF ConnectionEnds
<1>19. CASE BrokerAnswers
    BY <1>19 DEF BrokerAnswers
<1>20. CASE CloudCommands
    BY <1>20 DEF CloudCommands
<1>21. CASE EventArrives
    BY <1>21 DEF EventArrives
<1>22. ASSUME NEW c \in Callers, UploadFails(c) PROVE SentInSession'
    BY <1>22 DEF UploadFails
<1>23. ASSUME NEW c \in Callers, Upload(c) PROVE SentInSession'
    BY <1>23 DEF Upload
<1>24. ASSUME NEW c \in Callers, Write(c) PROVE SentInSession'
    BY <1>24 DEF Write
<1>25. QED
    BY <1>1, <1>2, <1>3, <1>4, <1>5, <1>6, <1>7, <1>8, <1>9, <1>10, <1>11, <1>12, <1>13, <1>14, <1>15, <1>16, <1>17, <1>18, <1>19, <1>20, <1>21, <1>22, <1>23, <1>24 DEF MqttNext, ClientStep, CallerStep, Network

--------------------------------------------------------------------------------
(* The front of the pipe *)

\* A write into an empty pipe that begins a message puts in all of it; a write
\* behind other cells leaves the front as it is.
LEMMA WriteKeepsFront ==
    ASSUME MqttTypeOK, WritersHaveEvents, FrontIsWhole, NEW c \in Callers, Write(c)
    PROVE  FrontIsWhole'
<1>1. PICK n \in 1 .. rest[c] :
           /\ n <= Room /\ (n = rest[c] \/ n = Room)
           /\ NextCells(c, n) \in Seq(Cells) /\ Len(NextCells(c, n)) = n
           /\ pipe' = pipe \o NextCells(c, n)
    BY WriteFacts
<1>2. rest[c] \in 1 .. MsgCells /\ Room = PipeCells - Len(pipe)
    BY WriteFacts
<1>3. pipe \in Seq(Cells) /\ MsgCells \in Nat /\ PipeCells \in Nat /\ MsgCells <= PipeCells
    BY MqttConstants, MessageFitsPipe DEF MqttTypeOK, PipeTypeOK
<1>4. n \in Nat /\ n >= 1
    BY <1>1, <1>2
<1>5. CASE Len(pipe) = 0
  <2>1. n = rest[c]
    BY <1>1, <1>2, <1>3, <1>5
  <2>2. \A i \in 1 .. n : pipe'[i] = <<event[c], MsgCells - rest[c] + i>>
    <3>1. \A i \in 1 .. n : pipe'[i] = NextCells(c, n)[i]
      BY <1>1, <1>3, <1>4, <1>5
    <3>2. QED
      BY <3>1 DEF NextCells
  <2>3. Len(pipe') = n
    BY <1>1, <1>3, <1>4, <1>5
  <2>4. ASSUME StartsMessage(pipe'[1]) PROVE rest[c] = MsgCells
    <3>1. pipe'[1][2] = MsgCells - rest[c] + 1
      BY <1>4, <2>2
    <3>2. QED
      BY <1>2, <1>3, <2>4, <3>1 DEF StartsMessage
  <2>5. ASSUME rest[c] = MsgCells
        PROVE  Len(pipe') >= MsgCells /\ \A i \in 1 .. MsgCells : pipe'[i] = <<pipe'[1][1], i>>
    <3>1. \A i \in 1 .. MsgCells : pipe'[i] = <<event[c], i>>
      BY <1>3, <2>1, <2>2, <2>5
    <3>2. pipe'[1][1] = event[c]
      BY <1>4, <2>1, <2>5, <3>1
    <3>3. QED
      BY <1>3, <2>1, <2>3, <2>5, <3>1, <3>2
  <2>6. QED
    BY <2>4, <2>5 DEF FrontIsWhole
<1>6. CASE Len(pipe) > 0
  <2>1. \A i \in 1 .. Len(pipe) : pipe'[i] = pipe[i]
    BY <1>1, <1>3, <1>4
  <2>2. Len(pipe') >= Len(pipe)
    BY <1>1, <1>3, <1>4
  <2>3. pipe # <<>> /\ pipe'[1] = pipe[1]
    BY <1>3, <1>6, <2>1
  <2>4. ASSUME StartsMessage(pipe[1])
        PROVE  Len(pipe) >= MsgCells /\ \A i \in 1 .. MsgCells : pipe[i] = <<pipe[1][1], i>>
    BY <2>3, <2>4 DEF FrontIsWhole
  <2>5. ASSUME StartsMessage(pipe'[1])
        PROVE  Len(pipe') >= MsgCells /\ \A i \in 1 .. MsgCells : pipe'[i] = <<pipe'[1][1], i>>
    <3>1. Len(pipe) \in Nat /\ Len(pipe') \in Nat
      BY <1>1, <1>3, <1>4
    <3>2. Len(pipe) >= MsgCells /\ \A i \in 1 .. MsgCells : pipe[i] = <<pipe[1][1], i>>
      BY <2>3, <2>4, <2>5
    <3>3. \A i \in 1 .. MsgCells : pipe'[i] = pipe[i]
      BY <1>3, <2>1, <3>1, <3>2
    <3>4. QED
      BY <1>3, <2>2, <2>3, <3>1, <3>2, <3>3
  <2>6. QED
    BY <2>5 DEF FrontIsWhole
<1>7. QED
    BY <1>3, <1>5, <1>6

LEMMA FrontStep ==
    ASSUME MqttInv, MqttNext
    PROVE  FrontIsWhole'
<1> USE DEF MqttInv
<1>1. ASSUME UNCHANGED pipe PROVE FrontIsWhole'
    BY <1>1 DEF FrontIsWhole
<1>2. CASE PipeReadable \/ TailReadable
  <2>1. pipe' = <<>>
    BY <1>2 DEF PipeReadable, TailReadable
  <2>2. QED
    BY <2>1 DEF FrontIsWhole
<1>3. ASSUME NEW c \in Callers, Write(c) PROVE FrontIsWhole'
    BY <1>3, WriteKeepsFront
<1>4. ASSUME NEW c \in Callers, UploadFails(c) \/ Upload(c) PROVE UNCHANGED pipe
    BY <1>4 DEF UploadFails, Upload
<1>5. CASE NetConnect
    BY <1>1, <1>5 DEF NetConnect
<1>6. CASE Connack
    BY <1>1, <1>6 DEF Connack
<1>7. CASE ConnackFails
    BY <1>1, <1>7 DEF ConnackFails
<1>8. CASE Suback
    BY <1>1, <1>8 DEF Suback
<1>9. CASE SubackFails
    BY <1>1, <1>9 DEF SubackFails
<1>10. CASE SocketReadable
    BY <1>1, <1>10 DEF SocketReadable
<1>11. CASE SocketFails
    BY <1>1, <1>11 DEF SocketFails
<1>12. CASE Ping
    BY <1>1, <1>12 DEF Ping
<1>13. CASE PingFails
    BY <1>1, <1>13 DEF PingFails
<1>14. CASE SendDone
    BY <1>1, <1>14 DEF SendDone
<1>15. CASE SendFails
    BY <1>1, <1>15 DEF SendFails
<1>16. CASE Disconnect
    BY <1>1, <1>16 DEF Disconnect
<1>17. CASE Restart
    BY <1>1, <1>17 DEF Restart
<1>18. CASE LinkFails
    BY <1>1, <1>18 DEF LinkFails
<1>19. CASE LinkReturns
    BY <1>1, <1>19 DEF LinkReturns
<1>20. CASE ConnectionEnds
    BY <1>1, <1>20 DEF ConnectionEnds
<1>21. CASE BrokerAnswers
    BY <1>1, <1>21 DEF BrokerAnswers
<1>22. CASE CloudCommands
    BY <1>1, <1>22 DEF CloudCommands
<1>23. CASE EventArrives
    BY <1>1, <1>23 DEF EventArrives
<1>24. QED
    BY <1>1, <1>2, <1>3, <1>4, <1>5, <1>6, <1>7, <1>8, <1>9, <1>10, <1>11, <1>12, <1>13, <1>14, <1>15, <1>16, <1>17, <1>18, <1>19, <1>20, <1>21, <1>22, <1>23 DEF MqttNext, ClientStep, CallerStep, Network

--------------------------------------------------------------------------------
(* The theorems *)

LEMMA MqttInitInv == MqttInit => MqttInv
<1> SUFFICES ASSUME MqttInit PROVE MqttInv
    OBVIOUS
<1> USE DEF MqttInit
<1>1. ThreadTypeOK
    BY DEF ThreadTypeOK, Places
<1>2. PipeTypeOK /\ WireTypeOK
    BY MqttConstants DEF PipeTypeOK, WireTypeOK
<1>3. CallerTypeOK
    BY MqttConstants DEF CallerTypeOK
<1>4. NetTypeOK
  <2>1. inbox \in Seq(Packets)
    OBVIOUS
  <2>2. commands \in 0 .. MaxCommands
    BY MqttConstants
  <2>3. owed \subseteq {"CONNECT", "SUBSCRIBE", "PINGREQ"}
    OBVIOUS
  <2>4. QED
    BY <2>1, <2>2, <2>3 DEF NetTypeOK
<1>5. MqttTypeOK
    BY <1>1, <1>2, <1>3, <1>4 DEF MqttTypeOK
<1>6. WritersHaveEvents /\ SendHasEvent /\ SentInSession /\ FrontIsWhole
    BY DEF WritersHaveEvents, SendHasEvent, SentInSession, FrontIsWhole
<1>7. Granted
    BY DEF Granted
<1>8. QED
    BY <1>5, <1>6, <1>7 DEF MqttInv

LEMMA MqttStepInv == MqttInv /\ [MqttNext]_mqttVars => MqttInv'
<1> SUFFICES ASSUME MqttInv, [MqttNext]_mqttVars PROVE MqttInv'
    OBVIOUS
<1>1. CASE MqttNext
  <2>1. broker' = broker
    BY <1>1 DEF MqttNext, ClientStep, CallerStep, Network, NetConnect, Connack, ConnackFails,
       Suback, SubackFails, SocketReadable, SocketFails, Ping, PingFails, PipeReadable,
       TailReadable, SendDone, SendFails, Disconnect, Restart, UploadFails, Upload, Write,
       LinkFails, LinkReturns, ConnectionEnds, BrokerAnswers, CloudCommands, EventArrives
  <2>2. MqttTypeOK'
    BY <1>1, <2>1, ThreadTypeStep, PipeTypeStep, CallerTypeStep, NetTypeStep, WireTypeStep
       DEF MqttInv, MqttTypeOK
  <2>3. QED
    BY <1>1, <2>2, WritersStep, SendStep, GrantedStep, SentInSessionStep, FrontStep DEF MqttInv
<1>2. CASE UNCHANGED mqttVars
  <2> USE <1>2 DEF mqttVars, threadVars, callerVars, netVars
  <2>1. ThreadTypeOK' /\ PipeTypeOK' /\ WireTypeOK' /\ broker' \in Brokers
    BY DEF MqttInv, MqttTypeOK, ThreadTypeOK, PipeTypeOK, WireTypeOK
  <2>2. CallerTypeOK'
    BY DEF MqttInv, MqttTypeOK, CallerTypeOK
  <2>3. NetTypeOK'
    BY DEF MqttInv, MqttTypeOK, NetTypeOK
  <2>4. WritersHaveEvents' /\ SendHasEvent'
    BY DEF MqttInv, WritersHaveEvents, SendHasEvent
  <2>5. Granted' /\ SentInSession'
    BY DEF MqttInv, Granted, SentInSession
  <2>6. FrontIsWhole'
    BY DEF MqttInv, FrontIsWhole
  <2>7. QED
    BY <2>1, <2>2, <2>3, <2>4, <2>5, <2>6 DEF MqttInv, MqttTypeOK
<1>3. QED
    BY <1>1, <1>2

LEMMA MqttInvariant == MqttSpec => []MqttInv
<1>1. MqttInit => MqttInv
    BY MqttInitInv
<1>2. MqttInv /\ [MqttNext]_mqttVars => MqttInv'
    BY MqttStepInv
<1>3. QED
    BY <1>1, <1>2, PTL DEF MqttSpec

\* Type correctness; the ring buffer is never asked to hold more than it can.
THEOREM MqttTypeCorrect == MqttSpec => []MqttTypeOK
<1>1. MqttInv => MqttTypeOK
    BY DEF MqttInv
<1>2. QED
    BY <1>1, MqttInvariant, PTL

\* Whoever blocks in the middle of a message, one that begins at the front of
\* the pipe is there in one piece.
THEOREM FrontIsAlwaysWhole == MqttSpec => []FrontIsWhole
<1>1. MqttInv => FrontIsWhole
    BY DEF MqttInv
<1>2. QED
    BY <1>1, MqttInvariant, PTL

\* Nothing is sent outside of a session the broker has granted.
THEOREM AlwaysSentInSession == MqttSpec => []SentInSession
<1>1. MqttInv => SentInSession
    BY DEF MqttInv
<1>2. QED
    BY <1>1, MqttInvariant, PTL

--------------------------------------------------------------------------------
(* Where messages begin *)

\* There are finitely many beginnings, and every rank from 1 to their number
\* is taken by exactly the beginnings that have it.
LEMMA StartsFinite ==
    ASSUME NEW cells \in Seq(Cells)
    PROVE  /\ Starts(cells) \subseteq 1 .. Len(cells)
           /\ IsFiniteSet(Starts(cells))
           /\ Cardinality(Starts(cells)) \in Nat
           /\ \A i : /\ IsFiniteSet(StartsUpTo(cells, i))
                     /\ Cardinality(StartsUpTo(cells, i)) \in Nat
                     /\ Cardinality(StartsUpTo(cells, i)) <= Cardinality(Starts(cells))
<1>1. Len(cells) \in Nat /\ DOMAIN cells = 1 .. Len(cells)
    BY LenProperties
<1>2. Starts(cells) \subseteq 1 .. Len(cells)
    BY <1>1 DEF Starts
<1>3. IsFiniteSet(1 .. Len(cells))
    BY <1>1, FS_Interval
<1>4. IsFiniteSet(Starts(cells)) /\ Cardinality(Starts(cells)) \in Nat
    BY <1>2, <1>3, FS_Subset, FS_CardinalityType
<1>5. ASSUME NEW i
      PROVE  /\ IsFiniteSet(StartsUpTo(cells, i))
             /\ Cardinality(StartsUpTo(cells, i)) \in Nat
             /\ Cardinality(StartsUpTo(cells, i)) <= Cardinality(Starts(cells))
    <2>1. StartsUpTo(cells, i) \in SUBSET Starts(cells)
        BY DEF StartsUpTo
    <2>2. QED
        BY <1>4, <2>1, FS_Subset, FS_CardinalityType
<1>6. QED
    BY <1>2, <1>4, <1>5

\* A later beginning has a higher rank, and no beginning has the rank 0.
LEMMA RanksGrow ==
    ASSUME NEW cells \in Seq(Cells), NEW i \in Starts(cells)
    PROVE  /\ Cardinality(StartsUpTo(cells, i)) \in 1 .. Cardinality(Starts(cells))
           /\ \A j \in Starts(cells) :
                 i < j => Cardinality(StartsUpTo(cells, i)) < Cardinality(StartsUpTo(cells, j))
<1>1. /\ Starts(cells) \subseteq Nat
      /\ \A k : /\ IsFiniteSet(StartsUpTo(cells, k))
                /\ Cardinality(StartsUpTo(cells, k)) \in Nat
                /\ Cardinality(StartsUpTo(cells, k)) <= Cardinality(Starts(cells))
      /\ Cardinality(Starts(cells)) \in Nat
    BY StartsFinite, LenProperties
<1>2. Cardinality(StartsUpTo(cells, i)) # 0
    <2>1. i \in StartsUpTo(cells, i)
        BY <1>1 DEF StartsUpTo
    <2>2. QED
        BY <1>1, <2>1, FS_EmptySet
<1>3. ASSUME NEW j \in Starts(cells), i < j
      PROVE  Cardinality(StartsUpTo(cells, i)) < Cardinality(StartsUpTo(cells, j))
    <2> DEFINE A == StartsUpTo(cells, i)
               B == StartsUpTo(cells, j)
    <2>1. A \in SUBSET B /\ j \in B /\ j \notin A
        BY <1>1, <1>3 DEF StartsUpTo
    <2>2. IsFiniteSet(B) /\ Cardinality(A) \in Nat /\ Cardinality(B) \in Nat
        BY <1>1
    <2> HIDE DEF A, B
    <2>3. Cardinality(A) <= Cardinality(B) /\ Cardinality(B) # Cardinality(A)
        BY <2>1, <2>2, FS_Subset
    <2>4. Cardinality(A) < Cardinality(B)
        BY <2>2, <2>3
    <2>5. QED
        BY <2>4 DEF A, B
<1>4. QED
    BY <1>1, <1>2, <1>3

\* Every place of EventsStarted is filled: the ranks are a one-to-one map of the
\* beginnings into as many numbers.
LEMMA EveryRankTaken ==
    ASSUME NEW cells \in Seq(Cells), NEW k \in 1 .. Cardinality(Starts(cells))
    PROVE  \E i \in KthStart(cells, k) : cells[i][1] \in Events
<1> DEFINE T == 1 .. Cardinality(Starts(cells))
           rank == [i \in Starts(cells) |-> Cardinality(StartsUpTo(cells, i))]
<1>1. /\ Starts(cells) \subseteq 1 .. Len(cells) /\ Cardinality(Starts(cells)) \in Nat
      /\ Len(cells) \in Nat
    BY StartsFinite, LenProperties
<1>2. rank \in [Starts(cells) -> T]
    BY RanksGrow
<1>3. ASSUME NEW i \in Starts(cells), NEW j \in Starts(cells), rank[i] = rank[j]
      PROVE  i = j
    <2>1. i \in Nat /\ j \in Nat
        BY <1>1
    <2>2. ~(i < j)
        BY <1>2, <1>3, RanksGrow
    <2>3. ~(j < i)
        BY <1>2, <1>3, RanksGrow
    <2>4. QED
        BY <2>1, <2>2, <2>3
<1>4. rank \in Injection(Starts(cells), T)
    BY <1>2, <1>3 DEF Injection, IsInjective
<1>5. IsFiniteSet(T) /\ Cardinality(T) = Cardinality(Starts(cells))
    BY <1>1, FS_Interval
<1>6. rank \in Surjection(Starts(cells), T)
    BY <1>4, <1>5, FS_Injection
<1>7. PICK i \in Starts(cells) : rank[i] = k
    BY <1>6 DEF Surjection
<1>8. i \in KthStart(cells, k)
    BY <1>7 DEF KthStart
<1>9. cells[i] \in Cells
    BY <1>1, ElementOfSeq
<1>10. QED
    BY <1>8, <1>9 DEF Cells

LEMMA EventsStartedType ==
    ASSUME NEW cells \in Seq(Cells)
    PROVE  /\ EventsStarted(cells) \in Seq(Events)
           /\ Len(EventsStarted(cells)) = Cardinality(Starts(cells))
<1> DEFINE n == Cardinality(Starts(cells))
           ev(k) == CHOOSE e \in Events : \E i \in KthStart(cells, k) : cells[i][1] = e
<1>1. n \in Nat
    BY StartsFinite
<1>2. ASSUME NEW k \in 1 .. n PROVE ev(k) \in Events
    BY EveryRankTaken
<1>3. EventsStarted(cells) = [k \in 1 .. n |-> ev(k)]
    BY DEF EventsStarted
<1> HIDE DEF n, ev
<1>4. EventsStarted(cells) \in [1 .. n -> Events]
    BY <1>2, <1>3
<1>5. EventsStarted(cells) \in Seq(Events) /\ Len(EventsStarted(cells)) = n
    BY <1>1, <1>4
<1>6. QED
    BY <1>5 DEF n

\* Two sequences of cells in which the same messages begin at the same places
\* start the same events.
LEMMA SameStarts ==
    ASSUME NEW s, NEW t, Starts(s) = Starts(t), \A i \in Starts(s) : s[i] = t[i]
    PROVE  EventsStarted(s) = EventsStarted(t)
<1>1. \A i : StartsUpTo(s, i) = StartsUpTo(t, i)
    BY DEF StartsUpTo
<1>2. \A k : KthStart(s, k) = KthStart(t, k) /\ KthStart(s, k) \subseteq Starts(s)
    BY <1>1 DEF KthStart
<1>3. \A k, e : (\E i \in KthStart(s, k) : s[i][1] = e) <=> (\E i \in KthStart(t, k) : t[i][1] = e)
    BY <1>2
<1>4. QED
    BY <1>3 DEF EventsStarted


\* Cells that begin no message add no event.
LEMMA NothingStarts ==
    ASSUME NEW s \in Seq(Cells), NEW d \in Seq(Cells),
           \A i \in 1 .. Len(d) : ~StartsMessage(d[i])
    PROVE  EventsStarted(s \o d) = EventsStarted(s)
<1> DEFINE t == s \o d
<1>1. /\ Len(s) \in Nat /\ Len(d) \in Nat /\ Len(t) = Len(s) + Len(d)
      /\ DOMAIN s = 1 .. Len(s) /\ DOMAIN t = 1 .. Len(t)
      /\ \A i \in 1 .. Len(s) : t[i] = s[i]
      /\ \A i \in 1 .. Len(t) : i > Len(s) => t[i] = d[i - Len(s)]
    BY ConcatProperties, LenProperties
<1> HIDE DEF t
<1>2. ASSUME NEW i \in Starts(t) PROVE i \in Starts(s)
    <2>1. i \in 1 .. Len(t) /\ StartsMessage(t[i])
        BY <1>1 DEF Starts
    <2>2. i <= Len(s)
        BY <1>1, <2>1
    <2>3. QED
        BY <1>1, <2>1, <2>2 DEF Starts
<1>3. ASSUME NEW i \in Starts(s) PROVE i \in Starts(t) /\ t[i] = s[i]
    BY <1>1 DEF Starts
<1>4. Starts(t) = Starts(s) /\ \A i \in Starts(t) : t[i] = s[i]
    BY <1>2, <1>3
<1>5. EventsStarted(t) = EventsStarted(s)
    BY <1>4, SameStarts
<1>6. QED
    BY <1>5 DEF t

\* Cells of which the first one begins a message, and no other does, add its
\* event behind the others.
LEMMA OneStarts ==
    ASSUME NEW s \in Seq(Cells), NEW d \in Seq(Cells), d # <<>>, StartsMessage(d[1]),
           \A i \in 2 .. Len(d) : ~StartsMessage(d[i])
    PROVE  EventsStarted(s \o d) = Append(EventsStarted(s), d[1][1])
<1> DEFINE t == s \o d
           h == Len(s) + 1
           n == Cardinality(Starts(s))
           e == d[1][1]
<1>1. /\ t \in Seq(Cells) /\ Len(s) \in Nat /\ Len(d) \in Nat \ {0} /\ Len(t) = Len(s) + Len(d)
      /\ DOMAIN s = 1 .. Len(s) /\ DOMAIN t = 1 .. Len(t)
      /\ \A i \in 1 .. Len(s) : t[i] = s[i]
      /\ \A i \in 1 .. Len(t) : i > Len(s) => t[i] = d[i - Len(s)]
    BY ConcatProperties, LenProperties, EmptySeq
<1>2. t[h] = d[1] /\ h \in 1 .. Len(t) /\ e \in Events
    <2>1. h - Len(s) = 1 /\ h \in 1 .. Len(t) /\ h > Len(s) /\ 1 \in 1 .. Len(d)
        BY <1>1
    <2>2. d[1] \in Cells
        BY <2>1, ElementOfSeq
    <2>3. QED
        BY <1>1, <2>1, <2>2 DEF Cells
<1> HIDE DEF t, h, e
<1>3. /\ Starts(s) \subseteq 1 .. Len(s) /\ h \notin Starts(s) /\ h \in Nat
      /\ \A i \in Starts(s) : i < h
    BY <1>1, StartsFinite DEF h
<1>4. Starts(t) = Starts(s) \cup {h}
    <2>1. ASSUME NEW i \in Starts(t) PROVE i \in Starts(s) \/ i = h
        <3>1. i \in 1 .. Len(t) /\ StartsMessage(t[i])
            BY <1>1 DEF Starts
        <3>2. CASE i <= Len(s)
            BY <1>1, <3>1, <3>2 DEF Starts
        <3>3. CASE i > Len(s)
            <4>1. i - Len(s) \in 1 .. Len(d) /\ t[i] = d[i - Len(s)]
                BY <1>1, <3>1, <3>3
            <4>2. i - Len(s) \notin 2 .. Len(d)
                BY <3>1, <4>1
            <4>3. i = h
                BY <1>1, <3>1, <4>1, <4>2 DEF h
            <4>4. QED
                BY <4>3
        <3>4. QED
            BY <1>1, <3>1, <3>2, <3>3
    <2>2. ASSUME NEW i \in Starts(s) PROVE i \in Starts(t)
        BY <1>1 DEF Starts
    <2>3. h \in Starts(t)
        BY <1>1, <1>2 DEF Starts
    <2>4. QED
        BY <2>1, <2>2, <2>3
<1>5. /\ n \in Nat /\ Cardinality(Starts(t)) = n + 1
      /\ \A i : Cardinality(StartsUpTo(s, i)) \in Nat /\ Cardinality(StartsUpTo(s, i)) <= n
    BY <1>3, <1>4, StartsFinite, FS_AddElement
<1> HIDE DEF n
<1>6. \A i \in Starts(s) : StartsUpTo(t, i) = StartsUpTo(s, i)
    BY <1>1, <1>3, <1>4 DEF StartsUpTo
<1>7. StartsUpTo(t, h) = Starts(t)
    BY <1>3, <1>4 DEF StartsUpTo
<1>8. ASSUME NEW k \in 1 .. n PROVE KthStart(t, k) = KthStart(s, k)
    <2>1. k # n + 1
        BY <1>5
    <2>2. Cardinality(StartsUpTo(t, h)) # k
        BY <1>5, <1>7, <2>1
    <2>3. QED
        BY <1>4, <1>6, <2>2 DEF KthStart
<1>9. KthStart(t, n + 1) = {h}
    <2>1. ASSUME NEW i \in Starts(s) PROVE Cardinality(StartsUpTo(t, i)) # n + 1
        <3>1. Cardinality(StartsUpTo(s, i)) # n + 1
            BY <1>5
        <3>2. QED
            BY <1>6, <3>1
    <2>2. QED
        BY <1>4, <1>5, <1>7, <2>1 DEF KthStart
<1>10. /\ EventsStarted(s) \in Seq(Events) /\ Len(EventsStarted(s)) = n
       /\ EventsStarted(t) \in Seq(Events) /\ Len(EventsStarted(t)) = n + 1
    BY <1>1, <1>5, EventsStartedType DEF n
<1>11. ASSUME NEW k \in 1 .. n PROVE EventsStarted(t)[k] = EventsStarted(s)[k]
    <2>1. \A i \in KthStart(s, k) : t[i] = s[i]
        BY <1>1, <1>3 DEF KthStart
    <2>2. \A x : (\E i \in KthStart(t, k) : t[i][1] = x) <=> (\E i \in KthStart(s, k) : s[i][1] = x)
        BY <1>8, <2>1
    <2>3. k \in 1 .. n + 1
        BY <1>5
    <2>4. EventsStarted(s)[k] = CHOOSE x \in Events : \E i \in KthStart(s, k) : s[i][1] = x
        BY DEF EventsStarted, n
    <2>5. EventsStarted(t)[k] = CHOOSE x \in Events : \E i \in KthStart(t, k) : t[i][1] = x
        BY <1>5, <2>3 DEF EventsStarted
    <2>6. QED
        BY <2>2, <2>4, <2>5
<1>12. EventsStarted(t)[n + 1] = e
    <2>1. EventsStarted(t)[n + 1] = CHOOSE x \in Events : \E i \in {h} : t[i][1] = x
        BY <1>5, <1>9 DEF EventsStarted
    <2>2. t[h][1] = e
        BY <1>2 DEF e
    <2>3. QED
        BY <1>2, <2>1, <2>2
<1>13. EventsStarted(t) = Append(EventsStarted(s), e)
    <2>1. /\ Append(EventsStarted(s), e) \in Seq(Events)
          /\ Len(Append(EventsStarted(s), e)) = n + 1
          /\ \A k \in 1 .. n : Append(EventsStarted(s), e)[k] = EventsStarted(s)[k]
          /\ Append(EventsStarted(s), e)[n + 1] = e
        BY <1>2, <1>10, AppendProperties
    <2>2. \A k \in 1 .. n + 1 : EventsStarted(t)[k] = Append(EventsStarted(s), e)[k]
        BY <1>5, <1>11, <1>12, <2>1
    <2>3. QED
        BY <1>5, <1>10, <2>1, <2>2, SeqEqual
<1>14. QED
    BY <1>13 DEF t, e

\* A message that begins at the front is the first event.
LEMMA FrontIsFirst ==
    ASSUME NEW s \in Seq(Cells), s # <<>>, StartsMessage(s[1])
    PROVE  /\ EventsStarted(s) \in Seq(Events) /\ EventsStarted(s) # <<>>
           /\ EventsStarted(s)[1] = s[1][1]
<1>1. 1 \in Starts(s) /\ 1 \in 1 .. Len(s)
    BY EmptySeq, LenProperties DEF Starts
<1>2. /\ Starts(s) \subseteq 1 .. Len(s) /\ Len(s) \in Nat
      /\ Cardinality(Starts(s)) \in Nat
    BY StartsFinite, LenProperties
<1>3. StartsUpTo(s, 1) = {1}
    BY <1>1, <1>2 DEF StartsUpTo
<1>4. Cardinality(StartsUpTo(s, 1)) = 1
    BY <1>3, FS_Singleton
<1>5. \A j \in Starts(s) : j # 1 => Cardinality(StartsUpTo(s, j)) # 1
    <2>1. SUFFICES ASSUME NEW j \in Starts(s), j # 1 PROVE Cardinality(StartsUpTo(s, j)) # 1
        OBVIOUS
    <2>2. 1 < j
        BY <1>2, <2>1
    <2>3. 1 < Cardinality(StartsUpTo(s, j))
        BY <1>1, <1>4, <2>2, RanksGrow
    <2>4. Cardinality(StartsUpTo(s, j)) \in Nat
        BY StartsFinite
    <2>5. QED
        BY <2>3, <2>4
<1>6. KthStart(s, 1) = {1}
    BY <1>1, <1>4, <1>5 DEF KthStart
<1>7. 1 \in 1 .. Cardinality(Starts(s))
    BY <1>1, <1>4, <1>2, RanksGrow
<1>8. EventsStarted(s)[1] = CHOOSE x \in Events : \E i \in {1} : s[i][1] = x
    BY <1>6, <1>7 DEF EventsStarted
<1>9. s[1][1] \in Events
    BY <1>1, ElementOfSeq DEF Cells
<1>10. EventsStarted(s)[1] = s[1][1]
    BY <1>8, <1>9
<1>11. EventsStarted(s) \in Seq(Events) /\ Len(EventsStarted(s)) \in Nat /\ Len(EventsStarted(s)) >= 1
    BY <1>2, <1>7, EventsStartedType
<1>12. QED
    BY <1>10, <1>11, EmptySeq

\* An empty pipe starts nothing.
LEMMA EmptyStartsNothing == EventsStarted(<<>>) = <<>>
<1>1. Starts(<<>>) = {}
    BY DEF Starts
<1>2. Cardinality(Starts(<<>>)) = 0
    BY <1>1, FS_EmptySet
<1>3. <<>> \in Seq(Cells)
    BY EmptySeq
<1>4. EventsStarted(<<>>) \in Seq(Events) /\ Len(EventsStarted(<<>>)) = 0
    BY <1>2, <1>3, EventsStartedType
<1>5. QED
    BY <1>4, EmptySeq, LenProperties, SeqEqual


--------------------------------------------------------------------------------
(* What is lost *)

\* A sequence is thinned when a piece of it is taken out.
LEMMA LosesPiece ==
    ASSUME NEW S, NEW a \in Seq(S), NEW b \in Seq(S), NEW c \in Seq(S)
    PROVE  Uplink!Thinned(a \o c, (a \o b) \o c)
<1> DEFINE s == a \o c
           ab == a \o b
           t == ab \o c
           f == [i \in 1 .. Len(s) |-> IF i <= Len(a) THEN i ELSE i + Len(b)]
<1>1. Len(a) \in Nat /\ Len(b) \in Nat /\ Len(c) \in Nat
    BY LenProperties
<1>2. /\ Len(s) = Len(a) + Len(c)
      /\ \A i \in 1 .. Len(s) : s[i] = IF i <= Len(a) THEN a[i] ELSE c[i - Len(a)]
    BY ConcatProperties
<1>3. /\ ab \in Seq(S) /\ Len(ab) = Len(a) + Len(b)
      /\ \A i \in 1 .. Len(ab) : ab[i] = IF i <= Len(a) THEN a[i] ELSE b[i - Len(a)]
    BY ConcatProperties
<1>0. ab \in Seq(S)
    BY <1>3
<1> HIDE DEF ab
<1>4. /\ Len(t) = Len(ab) + Len(c)
      /\ \A i \in 1 .. Len(t) : t[i] = IF i <= Len(ab) THEN ab[i] ELSE c[i - Len(ab)]
    BY <1>0, ConcatProperties
<1> HIDE DEF s, t
<1>5. f \in [1 .. Len(s) -> 1 .. Len(t)]
    BY <1>1, <1>2, <1>3, <1>4
<1>6. \A i, j \in 1 .. Len(s) : i < j => f[i] < f[j]
    BY <1>1, <1>2
<1>7. ASSUME NEW i \in 1 .. Len(s) PROVE s[i] = t[f[i]]
    <2>1. CASE i <= Len(a)
        <3>1. f[i] = i /\ i \in 1 .. Len(ab) /\ i \in 1 .. Len(t)
            BY <1>1, <1>2, <1>3, <1>4, <2>1
        <3>2. QED
            BY <1>2, <1>3, <1>4, <2>1, <3>1
    <2>2. CASE i > Len(a)
        <3>1. /\ f[i] = i + Len(b) /\ f[i] \in 1 .. Len(t) /\ ~(f[i] <= Len(ab))
              /\ f[i] - Len(ab) = i - Len(a) /\ ~(i <= Len(a))
            BY <1>1, <1>2, <1>3, <1>4, <2>2
        <3>2. QED
            BY <1>2, <1>4, <3>1
    <2>3. QED
        BY <1>1, <1>2, <2>1, <2>2
<1> HIDE DEF f
<1>8. Uplink!Thinned(s, t)
    BY <1>5, <1>6, <1>7 DEF Uplink!Thinned
<1>9. QED
    BY <1>8 DEF s, t, ab

--------------------------------------------------------------------------------
(* The events callers have in hand *)

\* A caller has an event exactly while it writes, nobody else has it, and it
\* was not refused.
EventsInHand ==
    /\ refused \subseteq 1 .. uploads
    /\ \A c \in Callers :
          /\ event[c] \in 0 .. uploads /\ event[c] \notin refused
          /\ rest[c] = 0 => event[c] = NoEvent
    /\ \A c, d \in Callers : event[c] = event[d] /\ event[c] # NoEvent => c = d

LEMMA EventsInHandInit == MqttInit => EventsInHand
    BY DEF MqttInit, EventsInHand, NoEvent

LEMMA EventsInHandStep ==
    ASSUME MqttInv, EventsInHand, [MqttNext]_mqttVars
    PROVE  EventsInHand'
<1>1. /\ uploads \in Nat /\ MsgCells \in Nat \ {0}
      /\ event \in [Callers -> Events \cup {NoEvent}] /\ rest \in [Callers -> 0 .. MsgCells]
    BY MqttConstants DEF MqttInv, MqttTypeOK, CallerTypeOK
<1>2. ASSUME UNCHANGED callerVars PROVE EventsInHand'
    BY <1>2 DEF callerVars, EventsInHand
<1>3. ASSUME NEW c \in Callers, UploadFails(c) PROVE EventsInHand'
    BY <1>1, <1>3 DEF UploadFails, EventsInHand, NoEvent
<1>4. ASSUME NEW c \in Callers, Upload(c) PROVE EventsInHand'
    BY <1>1, <1>4 DEF Upload, EventsInHand, NoEvent
<1>5. ASSUME NEW c \in Callers, Write(c) PROVE EventsInHand'
    <2>1. PICK n \in 1 .. rest[c] :
             /\ rest' = [rest EXCEPT ![c] = @ - n]
             /\ event' = [event EXCEPT ![c] = IF n = rest[c] THEN NoEvent ELSE @]
        BY <1>5, WriteFacts DEF MqttInv
    <2>2. UNCHANGED <<uploads, refused>>
        BY <1>5 DEF Write
    <2>3. rest[c] \in Nat /\ (rest'[c] = 0 => n = rest[c])
        BY <1>1, <2>1
    <2>4. QED
        BY <1>1, <2>1, <2>2, <2>3 DEF EventsInHand, NoEvent
<1>6. CASE ClientStep
    BY <1>2, <1>6 DEF ClientStep, NetConnect, Connack, ConnackFails, Suback, SubackFails,
       SocketReadable, SocketFails, Ping, PingFails, PipeReadable, TailReadable, SendDone,
       SendFails, Disconnect, Restart
<1>7. CASE Network
    BY <1>2, <1>7 DEF Network, LinkFails, LinkReturns, ConnectionEnds, BrokerAnswers,
       CloudCommands, EventArrives
<1>8. CASE UNCHANGED mqttVars
    BY <1>2, <1>8 DEF mqttVars
<1>9. QED
    BY <1>3, <1>4, <1>5, <1>6, <1>7, <1>8 DEF MqttNext, CallerStep

--------------------------------------------------------------------------------
(* The upload path implements the queue *)

\* The pieces of what is under way are sequences of events.
LEMMA PiecesAreEvents ==
    ASSUME MqttInv
    PROVE  /\ wire \in Seq(Events) /\ InSend \in Seq(Events)
           /\ pipe \in Seq(Cells) /\ EventsStarted(pipe) \in Seq(Events)
           /\ place # "send" => InSend = <<>>
<1>1. wire \in Seq(Events) /\ pipe \in Seq(Cells)
    BY DEF MqttInv, MqttTypeOK, WireTypeOK, PipeTypeOK
<1>2. InSend \in Seq(Events)
    BY DEF MqttInv, SendHasEvent, InSend
<1>3. QED
    BY <1>1, <1>2, EventsStartedType DEF InSend

\* Steps of the client and of the network that move no event.
LEMMA NothingMoves ==
    ASSUME UNCHANGED <<callerVars, wire, pipe, InSend, cloud>>
    PROVE  UNCHANGED Uplink!uplinkVars
<1>1. Entered' = Entered
    BY DEF callerVars, Entered
<1>2. EventsStarted(pipe)' = EventsStarted(pipe)
    BY DEF EventsStarted, Starts, StartsUpTo, KthStart
<1>3. Underway' = Underway
    BY <1>2 DEF Underway
<1>4. QED
    BY <1>1, <1>3 DEF callerVars, Uplink!uplinkVars

\* A step that leaves the callers and the cloud alone and takes one piece out
\* of what is under way loses events.
LEMMA LossIsLose ==
    ASSUME UNCHANGED <<callerVars, cloud>>,
           NEW a \in Seq(Events), NEW b \in Seq(Events), NEW c \in Seq(Events),
           Underway = (a \o b) \o c, Underway' = a \o c
    PROVE  Uplink!Lose
<1>1. Entered' = Entered
    BY DEF callerVars, Entered
<1>2. Uplink!Thinned(Underway', Underway)
    BY LosesPiece
<1>3. QED
    BY <1>1, <1>2 DEF callerVars, Uplink!Lose


\* A wire that is lost is the first piece.
LEMMA WireLost ==
    ASSUME MqttInv, wire' = <<>>, UNCHANGED <<callerVars, cloud, pipe, InSend>>
    PROVE  Uplink!Lose
<1> DEFINE late == InSend \o EventsStarted(pipe)
<1>1. EventsStarted(pipe)' = EventsStarted(pipe)
    BY DEF EventsStarted, Starts, StartsUpTo, KthStart
<1>2. late \in Seq(Events) /\ wire \in Seq(Events)
    BY PiecesAreEvents, ConcatProperties
<1>3. Underway = wire \o late
    BY PiecesAreEvents, ConcatAssociative DEF Underway
<1>4. Underway' = (<<>> \o InSend) \o EventsStarted(pipe)
    BY <1>1 DEF Underway
<1>5. Underway' = late
    BY <1>4, PiecesAreEvents, ConcatEmptySeq
<1> HIDE DEF late
<1>6. Underway = (<<>> \o wire) \o late /\ Underway' = <<>> \o late /\ <<>> \in Seq(Events)
    BY <1>2, <1>3, <1>5, ConcatEmptySeq, EmptySeq
<1>7. QED
    BY <1>2, <1>6, LossIsLose

\* Reading the pipe takes the first message along and loses the others.
LEMMA ReadLosesOthers ==
    ASSUME MqttInv, PipeReadable
    PROVE  Uplink!Lose
<1> DEFINE e == Head(pipe)[1]
           first == wire \o <<e>>
           others == Tail(EventsStarted(pipe))
<1>1. /\ place = "select" /\ place' = "send" /\ sending' = e /\ pipe' = <<>>
      /\ pipe # <<>> /\ StartsMessage(Head(pipe))
      /\ UNCHANGED <<callerVars, cloud, wire>>
    BY DEF PipeReadable, At, Goto
<1>2. Head(pipe) = pipe[1]
    BY <1>1, PiecesAreEvents
<1>3. /\ EventsStarted(pipe) \in Seq(Events) /\ EventsStarted(pipe) # <<>>
      /\ EventsStarted(pipe)[1] = e
    BY <1>1, <1>2, PiecesAreEvents, FrontIsFirst
<1>4. e \in Events /\ others \in Seq(Events)
    BY <1>3, HeadTailProperties
<1>5. EventsStarted(pipe) = <<e>> \o others
    <2>1. Len(EventsStarted(pipe)) \in Nat \ {0}
        BY <1>3, EmptySeq
    <2>2. QED
        BY <1>3, <2>1
<1>6. wire \in Seq(Events) /\ <<e>> \in Seq(Events) /\ first \in Seq(Events) /\ <<>> \in Seq(Events)
    BY <1>4, PiecesAreEvents, ConcatProperties, EmptySeq
<1>7. Underway = first \o others
    <2>1. Underway = wire \o EventsStarted(pipe)
        BY <1>1, PiecesAreEvents, ConcatEmptySeq DEF Underway
    <2> HIDE DEF e, others
    <2>2. Underway = wire \o (<<e>> \o others)
        BY <1>5, <2>1
    <2>3. QED
        BY <1>4, <1>6, <2>2, ConcatAssociative
<1>8. Underway' = first
    <2>1. EventsStarted(pipe)' = <<>>
        <3>1. EventsStarted(pipe)' = EventsStarted(pipe')
            OBVIOUS
        <3>2. QED
            BY <1>1, <3>1, EmptyStartsNothing
    <2>2. InSend' = <<e>>
        BY <1>1 DEF InSend
    <2> HIDE DEF e
    <2>3. Underway' = first \o <<>>
        BY <1>1, <2>1, <2>2 DEF Underway
    <2>4. QED
        BY <1>6, <2>3, ConcatEmptySeq
<1> HIDE DEF first, others
<1>9. Underway = (first \o others) \o <<>> /\ Underway' = first \o <<>>
    BY <1>4, <1>6, <1>7, <1>8, ConcatEmptySeq, ConcatProperties
<1>10. QED
    BY <1>1, <1>4, <1>6, <1>9, LossIsLose

\* The text of a message that is read without its header takes what lies
\* behind it along.
LEMMA TailLosesAll ==
    ASSUME MqttInv, TailReadable
    PROVE  Uplink!Lose
<1>1. /\ place = "select" /\ place' # "send" /\ pipe' = <<>>
      /\ UNCHANGED <<callerVars, cloud, wire>>
    BY DEF TailReadable, SelectAgain, At, Goto
<1>2. /\ InSend = <<>> /\ InSend' = <<>>
      /\ wire \in Seq(Events) /\ EventsStarted(pipe) \in Seq(Events) /\ <<>> \in Seq(Events)
    BY <1>1, PiecesAreEvents, EmptySeq DEF InSend
<1>3. EventsStarted(pipe)' = <<>>
    <2>1. EventsStarted(pipe)' = EventsStarted(pipe')
        OBVIOUS
    <2>2. QED
        BY <1>1, <2>1, EmptyStartsNothing
<1>4. Underway = wire \o EventsStarted(pipe)
    BY <1>2, ConcatEmptySeq DEF Underway
<1>5. Underway = (wire \o EventsStarted(pipe)) \o <<>>
    BY <1>2, <1>4, ConcatProperties, ConcatEmptySeq
<1>6. Underway' = wire \o <<>>
    BY <1>1, <1>2, <1>3, ConcatEmptySeq DEF Underway
<1>7. QED
    BY <1>1, <1>2, <1>5, <1>6, LossIsLose

\* A transmission that fails loses the event in hand.
LEMMA SendFailsLoses ==
    ASSUME MqttInv, SendFails
    PROVE  Uplink!Lose
<1>1. /\ place' # "send" /\ UNCHANGED <<callerVars, cloud, wire, pipe>>
    BY DEF SendFails, At, Goto
<1>2. InSend' = <<>>
    BY <1>1 DEF InSend
<1>3. EventsStarted(pipe)' = EventsStarted(pipe)
    BY <1>1 DEF EventsStarted, Starts, StartsUpTo, KthStart
<1>4. /\ wire \in Seq(Events) /\ InSend \in Seq(Events) /\ EventsStarted(pipe) \in Seq(Events)
    BY PiecesAreEvents
<1>5. Underway' = (wire \o <<>>) \o EventsStarted(pipe)
    BY <1>1, <1>2, <1>3 DEF Underway
<1>6. Underway' = wire \o EventsStarted(pipe)
    BY <1>4, <1>5, ConcatEmptySeq
<1>7. Underway = (wire \o InSend) \o EventsStarted(pipe)
    BY DEF Underway
<1>8. QED
    BY <1>1, <1>4, <1>6, <1>7, LossIsLose

\* A transmission that succeeds moves the event on to the wire.
LEMMA SendDoneMovesOn ==
    ASSUME MqttInv, SendDone
    PROVE  UNCHANGED Uplink!uplinkVars
<1>1. /\ place = "send" /\ place' # "send" /\ wire' = Append(wire, sending)
      /\ UNCHANGED <<callerVars, cloud, pipe>>
    BY DEF SendDone, SelectAgain, At, Goto
<1>2. InSend = <<sending>> /\ InSend' = <<>> /\ sending \in Events
    BY <1>1 DEF InSend, MqttInv, SendHasEvent
<1>3. EventsStarted(pipe)' = EventsStarted(pipe)
    BY <1>1 DEF EventsStarted, Starts, StartsUpTo, KthStart
<1>4. wire \in Seq(Events)
    BY PiecesAreEvents
<1>5. wire' = wire \o InSend /\ wire' \in Seq(Events)
    BY <1>1, <1>2, <1>4, AppendIsConcat, AppendProperties
<1>6. Underway' = wire' \o EventsStarted(pipe)
    BY <1>2, <1>3, <1>5, ConcatEmptySeq DEF Underway
<1>7. Underway' = Underway
    BY <1>5, <1>6 DEF Underway
<1>8. Entered' = Entered
    BY <1>1 DEF callerVars, Entered
<1>9. QED
    BY <1>1, <1>7, <1>8 DEF callerVars, Uplink!uplinkVars

\* The event at the head of the wire is the first one under way.
LEMMA ArrivalIsArrive ==
    ASSUME MqttInv, EventArrives
    PROVE  Uplink!Arrive
<1> DEFINE late == InSend \o EventsStarted(pipe)
<1>1. /\ wire # <<>> /\ cloud' = Append(cloud, Head(wire)) /\ wire' = Tail(wire)
      /\ UNCHANGED <<callerVars, pipe, place, sending>>
    BY DEF EventArrives, threadVars
<1>2. EventsStarted(pipe)' = EventsStarted(pipe) /\ InSend' = InSend
    BY <1>1 DEF EventsStarted, Starts, StartsUpTo, KthStart, InSend
<1>3. late \in Seq(Events) /\ wire \in Seq(Events)
    BY PiecesAreEvents, ConcatProperties
<1>4. Tail(wire) \in Seq(Events)
    BY <1>1, <1>3, HeadTailProperties
<1>5. Underway = wire \o late
    BY PiecesAreEvents, ConcatAssociative DEF Underway
<1>6. Underway' = (Tail(wire) \o InSend) \o EventsStarted(pipe)
    BY <1>1, <1>2 DEF Underway
<1>7. Underway' = Tail(wire) \o late
    BY <1>4, <1>6, PiecesAreEvents, ConcatAssociative
<1> HIDE DEF late
<1>8. Len(wire) \in Nat \ {0} /\ Len(late) \in Nat
    BY <1>1, <1>3, EmptySeq, LenProperties
<1>9. Underway # <<>> /\ Head(Underway) = Head(wire)
    BY <1>3, <1>5, <1>8
<1>10. Tail(Underway) = Tail(wire) \o late
    BY <1>3, <1>5, <1>8
<1>11. Entered' = Entered /\ refused' = refused
    BY <1>1 DEF callerVars, Entered
<1>12. QED
    BY <1>1, <1>7, <1>9, <1>10, <1>11 DEF Uplink!Arrive


\* An upload that fails is refused; nothing else changes.
LEMMA FailureIsRefuse ==
    ASSUME MqttInv, EventsInHand, NEW c \in Callers, UploadFails(c)
    PROVE  \E e \in Events : Uplink!Refuse(e)
<1> DEFINE e == uploads + 1
<1>1. /\ uploads < MaxUploads /\ uploads' = e /\ refused' = refused \cup {e}
      /\ UNCHANGED <<event, rest, cloud, wire, pipe, place, sending>>
    BY DEF UploadFails, threadVars
<1>2. uploads \in Nat /\ MaxUploads \in Nat
    BY MqttConstants DEF MqttInv, MqttTypeOK, CallerTypeOK
<1>3. e \in Events /\ e \notin refused /\ e \notin Entered
    BY <1>1, <1>2 DEF Events, Entered, EventsInHand
<1>4. Entered' = Entered
    BY <1>1, <1>2 DEF Entered
<1>5. Underway' = Underway
    BY <1>1 DEF Underway, InSend, EventsStarted, Starts, StartsUpTo, KthStart
<1>6. QED
    BY <1>1, <1>3, <1>4, <1>5 DEF Uplink!Refuse

\* An upload that is accepted has not entered before its first write.
LEMMA UploadIsNoStep ==
    ASSUME MqttInv, EventsInHand, NEW c \in Callers, Upload(c)
    PROVE  UNCHANGED Uplink!uplinkVars
<1> DEFINE e == uploads + 1
<1>1. /\ rest[c] = 0 /\ uploads' = e
      /\ event' = [event EXCEPT ![c] = e] /\ rest' = [rest EXCEPT ![c] = MsgCells]
      /\ UNCHANGED <<refused, cloud, wire, pipe, place, sending>>
    BY DEF Upload, threadVars
<1>2. /\ uploads \in Nat /\ event \in [Callers -> Events \cup {NoEvent}]
      /\ rest \in [Callers -> 0 .. MsgCells] /\ MsgCells \in Nat \ {0}
    BY MqttConstants DEF MqttInv, MqttTypeOK, CallerTypeOK
<1>3. ASSUME NEW x \in 1 .. e PROVE x \in Entered' <=> x \in Entered
    <2>1. CASE x = e
        BY <1>1, <1>2, <2>1 DEF Entered
    <2>2. CASE x # e
        <3>1. x \in 1 .. uploads
            BY <1>2, <2>2
        <3>2. ASSUME NEW d \in Callers
              PROVE  event'[d] = x /\ rest'[d] = MsgCells <=> event[d] = x /\ rest[d] = MsgCells
            BY <1>1, <1>2, <2>2
        <3>3. QED
            BY <1>1, <3>1, <3>2 DEF Entered
    <2>3. QED
        BY <2>1, <2>2
<1>4. Entered \subseteq 1 .. e /\ Entered' \subseteq 1 .. e
    BY <1>1, <1>2 DEF Entered
<1>5. Entered' = Entered
    BY <1>3, <1>4
<1>6. Underway' = Underway
    BY <1>1 DEF Underway, InSend, EventsStarted, Starts, StartsUpTo, KthStart
<1>7. QED
    BY <1>1, <1>5, <1>6 DEF Uplink!uplinkVars

\* The first write of a message takes its event into the queue, behind all the
\* others; a later one only brings the rest of it.
LEMMA WriteAccepts ==
    ASSUME MqttInv, EventsInHand, NEW c \in Callers, Write(c)
    PROVE  (\E e \in Events : Uplink!Accept(e)) \/ UNCHANGED Uplink!uplinkVars
<1> DEFINE e == event[c]
<1>1. PICK n \in 1 .. rest[c] :
         /\ NextCells(c, n) \in Seq(Cells) /\ Len(NextCells(c, n)) = n
         /\ pipe' = pipe \o NextCells(c, n)
         /\ rest' = [rest EXCEPT ![c] = @ - n]
         /\ event' = [event EXCEPT ![c] = IF n = rest[c] THEN NoEvent ELSE @]
    BY WriteFacts DEF MqttInv
<1> DEFINE d == NextCells(c, n)
<1>2. /\ rest[c] \in 1 .. MsgCells /\ e \in Events /\ n \in Nat \ {0} /\ MsgCells \in Nat
      /\ UNCHANGED <<uploads, refused, cloud, wire, place, sending>>
      /\ event \in [Callers -> Events \cup {NoEvent}] /\ rest \in [Callers -> 0 .. MsgCells]
    <2>1. rest[c] \in 1 .. MsgCells /\ e \in Events
        BY WriteFacts DEF MqttInv
    <2>2. MsgCells \in Nat /\ n \in Nat \ {0}
        BY <1>1, <2>1, MqttConstants
    <2>3. UNCHANGED <<uploads, refused, cloud, wire, place, sending>>
        BY DEF Write, threadVars
    <2>4. QED
        BY <2>1, <2>2, <2>3 DEF MqttInv, MqttTypeOK, CallerTypeOK
<1>3. \A i \in 1 .. n : d[i] = <<e, MsgCells - rest[c] + i>>
    BY <1>2 DEF NextCells
<1>4. /\ pipe \in Seq(Cells) /\ EventsStarted(pipe) \in Seq(Events)
      /\ wire \o InSend \in Seq(Events)
    BY PiecesAreEvents, ConcatProperties
<1>5. InSend' = InSend
    BY <1>2 DEF InSend
<1>6. \A i \in 2 .. n : ~StartsMessage(d[i])
    <2>1. SUFFICES ASSUME NEW i \in 2 .. n PROVE d[i][2] # 1
        BY DEF StartsMessage
    <2>2. i \in 1 .. n /\ d[i][2] = MsgCells - rest[c] + i
        BY <1>3
    <2>3. QED
        BY <1>2, <2>2
<1>7. ASSUME NEW x \in Callers, x # c
      PROVE  event'[x] = event[x] /\ rest'[x] = rest[x] /\ event[x] # e
    BY <1>1, <1>2, <1>7 DEF EventsInHand, Events, NoEvent
<1>8. rest'[c] # MsgCells
    BY <1>1, <1>2
<1>9. CASE rest[c] = MsgCells
    <2>1. d # <<>> /\ d[1] = <<e, 1>> /\ StartsMessage(d[1])
        <3>1. d[1] = <<e, MsgCells - rest[c] + 1>>
            BY <1>2, <1>3
        <3>2. d # <<>>
            BY <1>1, <1>2
        <3>3. QED
            BY <1>2, <1>9, <3>1, <3>2 DEF StartsMessage
    <2>2. EventsStarted(pipe \o d) = Append(EventsStarted(pipe), d[1][1])
        BY <1>1, <1>4, <1>6, <2>1, OneStarts
    <2>3. EventsStarted(pipe)' = EventsStarted(pipe')
        OBVIOUS
    <2>4. EventsStarted(pipe)' = Append(EventsStarted(pipe), e)
        BY <1>1, <2>1, <2>2, <2>3
    <2>5. Underway' = (wire \o InSend) \o Append(EventsStarted(pipe), e)
        BY <1>2, <1>5, <2>4 DEF Underway
    <2>6. Underway' = Append(Underway, e)
        <3>1. <<e>> \in Seq(Events)
            BY <1>2
        <3>2. Append(EventsStarted(pipe), e) = EventsStarted(pipe) \o <<e>>
            BY <1>2, <1>4, AppendIsConcat
        <3> HIDE DEF e
        <3>3. ((wire \o InSend) \o EventsStarted(pipe)) \o <<e>>
                 = (wire \o InSend) \o (EventsStarted(pipe) \o <<e>>)
            BY <1>4, <3>1, ConcatAssociative
        <3>4. Underway' = Underway \o <<e>>
            BY <2>5, <3>2, <3>3 DEF Underway
        <3>5. Underway \in Seq(Events)
            BY <1>4, ConcatProperties DEF Underway
        <3>6. QED
            BY <1>2, <3>4, <3>5, AppendIsConcat
    <2>7. e \in 1 .. uploads /\ e \notin refused /\ e \notin Entered
        BY <1>2, <1>9 DEF EventsInHand, Entered, Events
    <2>8. Entered' = Entered \cup {e}
        <3>1. ASSUME NEW x \in 1 .. uploads
              PROVE  x \in Entered' <=> x \in Entered \cup {e}
            <4>1. CASE x = e
                <5>1. \A y \in Callers : ~(event'[y] = x /\ rest'[y] = MsgCells)
                    BY <1>7, <1>8, <4>1
                <5>2. QED
                    BY <1>2, <2>7, <4>1, <5>1 DEF Entered
            <4>2. CASE x # e
                <5>1. \A y \in Callers : event'[y] = x /\ rest'[y] = MsgCells
                                            <=> event[y] = x /\ rest[y] = MsgCells
                    BY <1>7, <1>8, <4>2
                <5>2. QED
                    BY <1>2, <4>2, <5>1 DEF Entered
            <4>3. QED
                BY <4>1, <4>2
        <3>2. Entered \subseteq 1 .. uploads /\ Entered' \subseteq 1 .. uploads
            BY <1>2 DEF Entered
        <3>3. QED
            BY <2>7, <3>1, <3>2
    <2>9. Uplink!Accept(e)
        BY <1>2, <2>6, <2>7, <2>8 DEF Uplink!Accept
    <2>10. QED
        BY <1>2, <2>9
<1>10. CASE rest[c] # MsgCells
    <2>1. \A i \in 1 .. Len(d) : ~StartsMessage(d[i])
        <3>1. SUFFICES ASSUME NEW i \in 1 .. n PROVE d[i][2] # 1
            BY <1>1 DEF StartsMessage
        <3>2. d[i][2] = MsgCells - rest[c] + i
            BY <1>3
        <3>3. QED
            BY <1>2, <1>10, <3>2
    <2>2. EventsStarted(pipe \o d) = EventsStarted(pipe)
        BY <1>1, <1>4, <2>1, NothingStarts
    <2>3. EventsStarted(pipe)' = EventsStarted(pipe')
        OBVIOUS
    <2>4. Underway' = Underway
        BY <1>1, <1>2, <1>5, <2>2, <2>3 DEF Underway
    <2>5. ASSUME NEW x \in 1 .. uploads
          PROVE  \A y \in Callers : event'[y] = x /\ rest'[y] = MsgCells
                                       <=> event[y] = x /\ rest[y] = MsgCells
        BY <1>7, <1>8, <1>10
    <2>6. Entered' = Entered
        BY <1>2, <2>5 DEF Entered
    <2>7. QED
        BY <1>2, <2>4, <2>6 DEF Uplink!uplinkVars
<1>11. QED
    BY <1>9, <1>10

\* Every step of the upload path is a step of the queue or changes nothing of it.
LEMMA NextRefinesUplink ==
    ASSUME MqttInv, EventsInHand, [MqttNext]_mqttVars
    PROVE  [Uplink!UplinkNext]_(Uplink!uplinkVars)
<1>1. ASSUME NEW c \in Callers, UploadFails(c) \/ Upload(c) \/ Write(c)
      PROVE  [Uplink!UplinkNext]_(Uplink!uplinkVars)
    BY <1>1, FailureIsRefuse, UploadIsNoStep, WriteAccepts DEF Uplink!UplinkNext
<1>2. CASE PipeReadable \/ TailReadable \/ SendFails
    BY <1>2, ReadLosesOthers, TailLosesAll, SendFailsLoses DEF Uplink!UplinkNext
<1>3. CASE SendDone
    BY <1>3, SendDoneMovesOn
<1>4. CASE EventArrives
    BY <1>4, ArrivalIsArrive DEF Uplink!UplinkNext
<1>5. CASE Restart \/ ConnectionEnds
    <2>1. wire' = <<>> /\ UNCHANGED <<callerVars, cloud, pipe, InSend>>
        BY <1>5 DEF Restart, ConnectionEnds, At, Goto, InSend, threadVars
    <2>2. QED
        BY <2>1, WireLost DEF Uplink!UplinkNext
<1>6. CASE \/ NetConnect \/ Connack \/ ConnackFails \/ Suback \/ SubackFails \/ SocketReadable
           \/ SocketFails \/ Ping \/ PingFails \/ Disconnect
    <2>1. UNCHANGED <<callerVars, wire, pipe, InSend, cloud>>
        BY <1>6 DEF NetConnect, Connack, ConnackFails, Suback, SubackFails, SocketReadable,
           SocketFails, Ping, PingFails, Disconnect, SelectAgain, At, Goto, InSend
    <2>2. QED
        BY <2>1, NothingMoves
<1>7. CASE LinkFails \/ LinkReturns \/ BrokerAnswers \/ CloudCommands \/ UNCHANGED mqttVars
    <2>1. UNCHANGED <<callerVars, wire, pipe, InSend, cloud>>
        BY <1>7 DEF LinkFails, LinkReturns, BrokerAnswers, CloudCommands, InSend, threadVars, mqttVars
    <2>2. QED
        BY <2>1, NothingMoves
<1>8. QED
    BY <1>1, <1>2, <1>3, <1>4, <1>5, <1>6, <1>7 DEF MqttNext, ClientStep, CallerStep, Network

\* From pipe_fops_write through the client to the wire, whatever blocks, breaks
\* or restarts: an event arrives in the order in which its message was begun,
\* at most once, and never when its upload returned an error.
THEOREM MqttImplementsUplink == MqttSpec => ImplementsUplink
<1>1. MqttInit => Uplink!UplinkInit
    <2>1. SUFFICES ASSUME MqttInit PROVE Uplink!UplinkInit
        OBVIOUS
    <2>2. Entered = {} /\ refused = {} /\ cloud = <<>>
        BY <2>1 DEF MqttInit, Entered
    <2>3. pipe = <<>> /\ wire = <<>> /\ InSend = <<>>
        BY <2>1 DEF MqttInit, InSend
    <2>4. Underway = (<<>> \o <<>>) \o <<>>
        BY <2>3, EmptyStartsNothing DEF Underway
    <2>5. Underway = <<>>
        BY <2>4, EmptySeq, ConcatEmptySeq
    <2>6. QED
        BY <2>2, <2>5 DEF Uplink!UplinkInit
<1>2. MqttInit => EventsInHand
    BY EventsInHandInit
<1>3. MqttInv /\ EventsInHand /\ [MqttNext]_mqttVars => EventsInHand'
    BY EventsInHandStep
<1>4. MqttInv /\ EventsInHand /\ [MqttNext]_mqttVars => [Uplink!UplinkNext]_(Uplink!uplinkVars)
    BY NextRefinesUplink
<1>5. QED
    BY <1>1, <1>2, <1>3, <1>4, MqttInvariant, PTL
       DEF MqttSpec, ImplementsUplink, Uplink!UplinkSpec
===============================================================================
