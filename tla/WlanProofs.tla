------------------------------- MODULE WlanProofs -------------------------------
(* Proofs about Wlan, for every number of drops and losses.                  *)
EXTENDS Wlan, TLAPS

\* A work that is queued, or is not for want of memory, is a short sequence.
LEMMA QueuedType ==
    ASSUME NEW S, NEW w \in S, NEW kept
    PROVE  Queued(w, kept) \in Seq(S)
    BY DEF Queued

LEMMA WlanInitType == WlanInit => WlanTypeOK
<1> SUFFICES ASSUME WlanInit PROVE WlanTypeOK
    OBVIOUS
<1>1. CallTypeOK /\ MgntTypeOK
    BY DEF WlanInit, CallTypeOK, MgntTypeOK, BeforeAddress
<1>2. SemTypeOK /\ NetTypeOK
    BY DEF WlanInit, SemTypeOK, NetTypeOK
<1>3. ThreadTypeOK
  <2>1. queue = <<>>
    BY DEF WlanInit
  <2>3. queue \in Seq(Works)
    BY <2>1
  <2>2. current \in [item : Works \cup {"none"}, found : Findings]
    BY DEF WlanInit, Idle, Findings
  <2>4. QED
    BY <2>3, <2>2 DEF WlanInit, ThreadTypeOK
<1>4. ChipTypeOK
  <2>1. answer \in [Commands -> {"none", "ok", "error"}]
    BY DEF WlanInit
  <2>2. drops = 0 /\ losses = 0
    BY DEF WlanInit
  <2>3. drops \in 0 .. MaxDrops /\ losses \in 0 .. MaxLosses
    BY <2>2, WlanConstants
  <2>4. QED
    BY <2>1, <2>3 DEF WlanInit, ChipTypeOK
<1>5. QED
    BY <1>1, <1>2, <1>3, <1>4 DEF WlanInit, WlanTypeOK

LEMMA CallStep ==
    ASSUME CallTypeOK, MgntTypeOK, Caller
    PROVE CallTypeOK'
<1> USE DEF CallTypeOK, MgntTypeOK, BeforeAddress, Goto, At, ConnectReturns
<1>1. CASE Start
    BY <1>1 DEF Start
<1>2. CASE ScanAnswered
    BY <1>2 DEF ScanAnswered
<1>3. CASE ScanIsDone
    BY <1>3 DEF ScanIsDone
<1>4. CASE AddressWaitEnds
    BY <1>4 DEF AddressWaitEnds
<1>5. CASE PauseEnds
    BY <1>5 DEF PauseEnds
<1>6. CASE Enable
    BY <1>6 DEF Enable
<1>7. CASE rt_wlan_auto_connect_run
    BY <1>7 DEF rt_wlan_auto_connect_run
<1>8. CASE Connect
    BY <1>8 DEF Connect
<1>9. CASE Mark
    BY <1>9 DEF Mark
<1>10. CASE JoinAnswered
    BY <1>10 DEF JoinAnswered
<1>11. CASE Unmark
    BY <1>11 DEF Unmark
<1>12. CASE JoinWaitEnds
    BY <1>12 DEF JoinWaitEnds
<1>13. CASE LeaveAnswered
    BY <1>13 DEF LeaveAnswered, LeaveReturns
<1>14. CASE LeaveWaitEnds
    BY <1>14 DEF LeaveWaitEnds, LeaveReturns
<1>15. QED
    BY <1>1, <1>2, <1>3, <1>4, <1>5, <1>6, <1>7, <1>8, <1>9, <1>10, <1>11, <1>12, <1>13, <1>14 DEF Caller

LEMMA MgntStep ==
    ASSUME MgntTypeOK, CallTypeOK, Caller
    PROVE MgntTypeOK'
<1> USE DEF MgntTypeOK, CallTypeOK, ConnectReturns, mgntVars
<1>1. CASE Start
    BY <1>1 DEF Start
<1>2. CASE ScanAnswered
    BY <1>2 DEF ScanAnswered
<1>3. CASE ScanIsDone
    BY <1>3 DEF ScanIsDone
<1>4. CASE AddressWaitEnds
    BY <1>4 DEF AddressWaitEnds
<1>5. CASE PauseEnds
    BY <1>5 DEF PauseEnds
<1>6. CASE Enable
    BY <1>6 DEF Enable
<1>7. CASE rt_wlan_auto_connect_run
    BY <1>7 DEF rt_wlan_auto_connect_run
<1>8. CASE Connect
    BY <1>8 DEF Connect
<1>9. CASE Mark
    BY <1>9 DEF Mark, Flags
<1>10. CASE JoinAnswered
    BY <1>10 DEF JoinAnswered
<1>11. CASE Unmark
    BY <1>11 DEF Unmark, Flags
<1>12. CASE JoinWaitEnds
    BY <1>12 DEF JoinWaitEnds
<1>13. CASE LeaveAnswered
    BY <1>13 DEF LeaveAnswered, LeaveReturns
<1>14. CASE LeaveWaitEnds
    BY <1>14 DEF LeaveWaitEnds, LeaveReturns
<1>15. QED
    BY <1>1, <1>2, <1>3, <1>4, <1>5, <1>6, <1>7, <1>8, <1>9, <1>10, <1>11, <1>12, <1>13, <1>14 DEF Caller

LEMMA DispatchType ==
    ASSUME MgntTypeOK, ThreadTypeOK, NEW e \in DevEvents, rt_wlan_event_dispatch(e)
    PROVE MgntTypeOK' /\ connected_flag' \in {TRUE, FALSE, connected_flag} /\ queue' \in Seq(Works)
<1>1. MgntTypeOK'
    BY DEF rt_wlan_event_dispatch, MgntTypeOK, StateAfter, TimerAfter, Flags
<1>2. connected_flag' \in {TRUE, FALSE, connected_flag}
    BY DEF rt_wlan_event_dispatch, FlagAfter
<1>3. queue' \in Seq(Works)
  <2>1. PICK kept : queue' = queue \o Queued(e, kept) \o Queued("netif_set_connected", kept)
    BY DEF rt_wlan_event_dispatch
  <2>2. \A w \in Works : Queued(w, kept) \in Seq(Works)
    BY QueuedType
  <2>3. e \in Works /\ "netif_set_connected" \in Works
    BY DEF Works
  <2>4. QED
    BY <2>1, <2>2, <2>3 DEF ThreadTypeOK
<1>4. QED
    BY <1>1, <1>2, <1>3

\* What a step leaves alone stays well typed.
LEMMA UnchangedTypes ==
    /\ CallTypeOK /\ UNCHANGED callVars => CallTypeOK'
    /\ MgntTypeOK /\ UNCHANGED mgntVars => MgntTypeOK'
    /\ SemTypeOK /\ UNCHANGED semVars => SemTypeOK'
    /\ NetTypeOK /\ UNCHANGED netVars => NetTypeOK'
    /\ ThreadTypeOK /\ UNCHANGED threadVars => ThreadTypeOK'
    /\ ChipTypeOK /\ UNCHANGED <<chipVars, losses>> => ChipTypeOK'
<1>1. CallTypeOK /\ UNCHANGED callVars => CallTypeOK'
    BY DEF CallTypeOK, callVars
<1>2. MgntTypeOK /\ UNCHANGED mgntVars => MgntTypeOK'
    BY DEF MgntTypeOK, mgntVars
<1>3. SemTypeOK /\ UNCHANGED semVars => SemTypeOK'
    BY DEF SemTypeOK, semVars
<1>4. NetTypeOK /\ UNCHANGED netVars => NetTypeOK'
    BY DEF NetTypeOK, netVars
<1>5. ThreadTypeOK /\ UNCHANGED threadVars => ThreadTypeOK'
    BY DEF ThreadTypeOK, threadVars
<1>6. ChipTypeOK /\ UNCHANGED <<chipVars, losses>> => ChipTypeOK'
    BY DEF ChipTypeOK, chipVars
<1>7. QED
    BY <1>1, <1>2, <1>3, <1>4, <1>5, <1>6

\* A loss is counted within its bound.
LEMMA LossType ==
    ASSUME ChipTypeOK, NEW something, Lose(something)
    PROVE  losses' \in 0 .. MaxLosses
    BY WlanConstants DEF ChipTypeOK, Lose

\* Sending a command and taking its answer, late or not.
LEMMA CommandType ==
    ASSUME ChipTypeOK, NEW c \in Commands
    PROVE  /\ Send(c) /\ UNCHANGED losses => ChipTypeOK'
           /\ \A r : Answered(c, r) => ChipTypeOK'
           /\ \A there : WaitIsOver(there) => ChipTypeOK'
<1>1. Send(c) /\ UNCHANGED losses => ChipTypeOK'
    BY DEF Send, ChipTypeOK
<1>2. ASSUME NEW r, Answered(c, r) PROVE ChipTypeOK'
  <2>1. CASE Take(c) /\ UNCHANGED losses
    BY <2>1 DEF Take, ChipTypeOK
  <2>2. CASE Lose(TRUE) /\ UNCHANGED chipVars
    BY <2>2, LossType DEF ChipTypeOK, chipVars
  <2>3. QED
    BY <1>2, <2>1, <2>2 DEF Answered
<1>3. ASSUME NEW there, WaitIsOver(there) PROVE ChipTypeOK'
  <2>1. losses' \in 0 .. MaxLosses
    BY <1>3, LossType DEF WaitIsOver
  <2>2. QED
    BY <1>3, <2>1 DEF WaitIsOver, ChipTypeOK, chipVars
<1>4. QED
    BY <1>1, <1>2, <1>3

\* A step of the caller keeps the types of everything but its own variables.
LEMMA CallerType ==
    ASSUME WlanTypeOK, Caller
    PROVE  WlanTypeOK'
<1> USE DEF WlanTypeOK
<1>1. CallTypeOK' /\ MgntTypeOK'
    BY CallStep, MgntStep
<1>2. SemTypeOK' /\ NetTypeOK' /\ ThreadTypeOK'
  <2> USE UnchangedTypes
  <2>1. CASE Start
    BY <2>1 DEF Start, SemTypeOK, semVars
  <2>2. CASE ScanAnswered
    BY <2>2 DEF ScanAnswered
  <2>3. CASE ScanIsDone
    BY <2>3 DEF ScanIsDone, SemTypeOK, semVars
  <2>4. CASE AddressWaitEnds
    BY <2>4 DEF AddressWaitEnds, SemTypeOK, semVars
  <2>5. CASE PauseEnds
    BY <2>5 DEF PauseEnds
  <2>6. CASE Enable
    BY <2>6 DEF Enable
  <2>7. CASE rt_wlan_auto_connect_run
    BY <2>7 DEF rt_wlan_auto_connect_run
  <2>8. CASE Connect
    BY <2>8 DEF Connect
  <2>9. CASE Mark
    BY <2>9 DEF Mark
  <2>10. CASE JoinAnswered
    BY <2>10 DEF JoinAnswered
  <2>11. CASE Unmark
    BY <2>11 DEF Unmark
  <2>12. CASE JoinWaitEnds
    BY <2>12 DEF JoinWaitEnds
  <2>13. CASE LeaveAnswered
    BY <2>13 DEF LeaveAnswered
  <2>14. CASE LeaveWaitEnds
    BY <2>14 DEF LeaveWaitEnds
  <2>15. QED
    BY <2>1, <2>2, <2>3, <2>4, <2>5, <2>6, <2>7, <2>8, <2>9, <2>10, <2>11, <2>12, <2>13, <2>14 DEF Caller
<1>3. ChipTypeOK'
  <2> USE UnchangedTypes, CommandType DEF Commands
  <2>1. CASE Start
    BY <2>1 DEF Start
  <2>2. CASE ScanAnswered
    BY <2>2 DEF ScanAnswered
  <2>3. CASE ScanIsDone
    BY <2>3 DEF ScanIsDone
  <2>4. CASE AddressWaitEnds
    BY <2>4 DEF AddressWaitEnds
  <2>5. CASE PauseEnds
    BY <2>5 DEF PauseEnds
  <2>6. CASE Enable
    BY <2>6 DEF Enable
  <2>7. CASE rt_wlan_auto_connect_run
    BY <2>7 DEF rt_wlan_auto_connect_run
  <2>8. CASE Connect
    BY <2>8 DEF Connect
  <2>9. CASE Mark
    BY <2>9 DEF Mark
  <2>10. CASE JoinAnswered
    BY <2>10 DEF JoinAnswered
  <2>11. CASE Unmark
    BY <2>11 DEF Unmark
  <2>12. CASE JoinWaitEnds
    BY <2>12 DEF JoinWaitEnds
  <2>13. CASE LeaveAnswered
    BY <2>13 DEF LeaveAnswered
  <2>14. CASE LeaveWaitEnds
    BY <2>14 DEF LeaveWaitEnds
  <2>15. QED
    BY <2>1, <2>2, <2>3, <2>4, <2>5, <2>6, <2>7, <2>8, <2>9, <2>10, <2>11, <2>12, <2>13, <2>14 DEF Caller
<1>4. (started' /\ place' # "idle") => work'
  <2> USE DEF CallTypeOK, Goto, ConnectReturns
  <2>1. CASE Start
    BY <2>1 DEF Start, At
  <2>2. CASE ScanAnswered
    BY <2>2 DEF ScanAnswered, At
  <2>3. CASE ScanIsDone
    BY <2>3 DEF ScanIsDone, At
  <2>4. CASE AddressWaitEnds
    BY <2>4 DEF AddressWaitEnds, At
  <2>5. CASE PauseEnds
    BY <2>5 DEF PauseEnds, At
  <2>6. CASE Enable
    BY <2>6 DEF Enable, At
  <2>7. CASE rt_wlan_auto_connect_run
    BY <2>7 DEF rt_wlan_auto_connect_run, At
  <2>8. CASE Connect
    <3>1. place = "connect" /\ started' = started
      BY <2>8 DEF Connect, At
    <3>2. \/ started => place' = "idle"
          \/ work' = work
      BY <2>8 DEF Connect
    <3>3. QED
      BY <3>1, <3>2
  <2>9. CASE Mark
    BY <2>9 DEF Mark, At
  <2>10. CASE JoinAnswered
    BY <2>10 DEF JoinAnswered, At
  <2>11. CASE Unmark
    BY <2>11 DEF Unmark, At
  <2>12. CASE JoinWaitEnds
    BY <2>12 DEF JoinWaitEnds, At
  <2>13. CASE LeaveAnswered
    BY <2>13 DEF LeaveAnswered, LeaveReturns, At
  <2>14. CASE LeaveWaitEnds
    BY <2>14 DEF LeaveWaitEnds, LeaveReturns, At
  <2>15. QED
    BY <2>1, <2>2, <2>3, <2>4, <2>5, <2>6, <2>7, <2>8, <2>9, <2>10, <2>11, <2>12, <2>13, <2>14 DEF Caller
<1>5. QED
    BY <1>1, <1>2, <1>3, <1>4

\* What is looked up is one of the findings.
LEMMA LookupType == \A w : Lookup(w) \in Findings
    BY DEF Lookup, Findings

LEMMA WlanThreadType ==
    ASSUME WlanTypeOK, WlanThread \/ timer_callback
    PROVE  WlanTypeOK'
<1> USE UnchangedTypes DEF WlanTypeOK
<1>1. CASE WorkBegins
  <2>1. CallTypeOK' /\ MgntTypeOK' /\ SemTypeOK' /\ NetTypeOK' /\ ChipTypeOK'
    BY <1>1 DEF WorkBegins
  <2>2. Head(queue) \in Works /\ Tail(queue) \in Seq(Works)
    BY <1>1 DEF WorkBegins, ThreadTypeOK
  <2>3. ThreadTypeOK'
    BY <1>1, <2>2, LookupType DEF WorkBegins, ThreadTypeOK
  <2>4. started' = started /\ place' = place /\ work' = work
    BY <1>1 DEF WorkBegins, callVars
  <2>5. QED
    BY <2>1, <2>3, <2>4
<1>2. CASE HandlerRuns
  <2>1. CallTypeOK' /\ NetTypeOK' /\ ChipTypeOK'
    BY <1>2 DEF HandlerRuns
  <2>2. MgntTypeOK' /\ SemTypeOK'
    BY <1>2 DEF HandlerRuns, MgntTypeOK, SemTypeOK
  <2>3. ThreadTypeOK'
    BY <1>2 DEF HandlerRuns, WorkEnds, ThreadTypeOK, Idle, Findings
  <2>4. started' = started /\ place' = place /\ work' = work
    BY <1>2 DEF HandlerRuns, callVars
  <2>5. QED
    BY <2>1, <2>2, <2>3, <2>4
<1>3. CASE AssertionFails
  <2>1. ThreadTypeOK'
    BY <1>3 DEF AssertionFails, ThreadTypeOK
  <2>2. started' = started /\ place' = place /\ work' = work
    BY <1>3 DEF AssertionFails, callVars
  <2>3. QED
    BY <1>3, <2>1, <2>2 DEF AssertionFails
<1>4. CASE netif_set_connected
  <2>1. CallTypeOK' /\ MgntTypeOK' /\ SemTypeOK' /\ ChipTypeOK'
    BY <1>4 DEF netif_set_connected
  <2>2. NetTypeOK'
    BY <1>4 DEF netif_set_connected, NetTypeOK
  <2>3. ThreadTypeOK'
    BY <1>4 DEF netif_set_connected, WorkEnds, ThreadTypeOK, Idle, Findings
  <2>4. started' = started /\ place' = place /\ work' = work
    BY <1>4 DEF netif_set_connected, callVars
  <2>5. QED
    BY <2>1, <2>2, <2>3, <2>4
<1>5. CASE netif_is_ready
  <2>1. CallTypeOK' /\ SemTypeOK'
    BY <1>5 DEF netif_is_ready
  <2>2. MgntTypeOK' /\ NetTypeOK'
    BY <1>5 DEF netif_is_ready, MgntTypeOK, NetTypeOK, Flags
  <2>3. losses' \in 0 .. MaxLosses
    BY <1>5, LossType DEF netif_is_ready, ChipTypeOK
  <2>4. ChipTypeOK'
    BY <1>5, <2>3 DEF netif_is_ready, ChipTypeOK, chipVars
  <2>5. queue' \in Seq(Works)
    <3>1. "READY" \in Works
      BY DEF Works
    <3>2. \A kept : Queued("READY", kept) \in Seq(Works)
      BY <3>1, QueuedType
    <3>3. queue \in Seq(Works)
      BY DEF ThreadTypeOK
    <3>4. queue' = queue \/ \E kept : queue' = queue \o Queued("READY", kept)
      BY <1>5 DEF netif_is_ready
    <3>5. ASSUME NEW kept, queue' = queue \o Queued("READY", kept)
          PROVE  queue' \in Seq(Works)
      <4>1. Queued("READY", kept) \in Seq(Works)
        BY <3>2
      <4>2. QED
        BY <3>3, <3>5, <4>1
    <3>6. QED
      BY <3>3, <3>4, <3>5
  <2>6. ThreadTypeOK'
    BY <1>5, <2>5 DEF netif_is_ready, WorkEnds, ThreadTypeOK, Idle, Findings
  <2>7. started' = started /\ place' = place /\ work' = work
    BY <1>5 DEF netif_is_ready, callVars
  <2>8. QED
    BY <2>1, <2>2, <2>4, <2>6, <2>7
<1>6. CASE timer_callback
  <2>1. CallTypeOK' /\ MgntTypeOK' /\ SemTypeOK' /\ ChipTypeOK'
    BY <1>6 DEF timer_callback
  <2>2. NetTypeOK'
    BY <1>6 DEF timer_callback, NetTypeOK
  <2>3. queue' \in Seq(Works)
    BY <1>6 DEF timer_callback, Works
  <2>4. ThreadTypeOK'
    BY <1>6, <2>3 DEF timer_callback, ThreadTypeOK
  <2>5. started' = started /\ place' = place /\ work' = work
    BY <1>6 DEF timer_callback, callVars
  <2>6. QED
    BY <2>1, <2>2, <2>4, <2>5
<1>7. QED
    BY <1>1, <1>2, <1>3, <1>4, <1>5, <1>6 DEF WlanThread

LEMMA DeviceType ==
    ASSUME WlanTypeOK, Device
    PROVE  WlanTypeOK'
<1> USE UnchangedTypes DEF WlanTypeOK
<1>1. ASSUME NEW c \in Commands, Accepts(c) \/ Refuses(c) PROVE WlanTypeOK'
  <2>1. UNCHANGED <<callVars, mgntVars, semVars, netVars, threadVars>>
    BY <1>1 DEF Accepts, Refuses
  <2>2. answer' \in [Commands -> {"none", "ok", "error"}]
    BY <1>1 DEF Accepts, Refuses, ChipTypeOK
  <2>3. link' \in {"down", "joining", "up", "leaving"}
    BY <1>1 DEF Accepts, Refuses, ChipTypeOK, LinkAfter
  <2>4. ChipTypeOK'
    BY <1>1, <2>2, <2>3 DEF Accepts, Refuses, ChipTypeOK
  <2>5. QED
    BY <2>1, <2>4 DEF callVars
<1>2. ASSUME NEW e \in DevEvents, Report(e) PROVE WlanTypeOK'
  <2>1. UNCHANGED <<callVars, semVars>> /\ UNCHANGED <<timer, dhcp, address, current, stuck>>
    BY <1>2 DEF Report
  <2>2. link' \in {"down", "joining", "up", "leaving"} /\ scanning' \in BOOLEAN
    BY <1>2 DEF Report, ChipTypeOK
  <2>3. MgntTypeOK' /\ connected_flag' \in {TRUE, FALSE, connected_flag}
        /\ queue' \in Seq(Works) /\ losses' \in 0 .. MaxLosses
    <3>1. CASE rt_wlan_event_dispatch(e)
      <4>1. losses' \in 0 .. MaxLosses
        BY <3>1, LossType DEF rt_wlan_event_dispatch
      <4>2. QED
        BY <3>1, <4>1, DispatchType
    <3>2. CASE Lose(TRUE) /\ UNCHANGED <<mgntVars, connected_flag, queue>>
      <4>1. losses' \in 0 .. MaxLosses
        BY <3>2, LossType
      <4>2. QED
        BY <3>2, <4>1 DEF ThreadTypeOK
    <3>3. QED
      BY <1>2, <3>1, <3>2 DEF Report
  <2>4. NetTypeOK' /\ ThreadTypeOK'
    BY <2>1, <2>3 DEF NetTypeOK, ThreadTypeOK
  <2>5. ChipTypeOK'
    BY <1>2, <2>2, <2>3 DEF Report, ChipTypeOK
  <2>6. QED
    BY <2>1, <2>3, <2>4, <2>5 DEF callVars
<1>3. CASE AccessPointChanges
  <2>1. ChipTypeOK'
    BY <1>3, WlanConstants DEF AccessPointChanges, ChipTypeOK
  <2>2. QED
    BY <1>3, <2>1 DEF AccessPointChanges, callVars
<1>4. CASE AddressComes
  <2>1. NetTypeOK'
    BY <1>4 DEF AddressComes, NetTypeOK
  <2>2. QED
    BY <1>4, <2>1 DEF AddressComes, callVars
<1>5. QED
    BY <1>1, <1>2, <1>3, <1>4 DEF Device

LEMMA WlanStepType == WlanTypeOK /\ [WlanNext]_wlanVars => WlanTypeOK'
<1> SUFFICES ASSUME WlanTypeOK, [WlanNext]_wlanVars PROVE WlanTypeOK'
    OBVIOUS
<1>1. CASE rt_wlan_cyclic_check
  <2>1. CallTypeOK' /\ work' = TRUE
    BY <1>1 DEF rt_wlan_cyclic_check, WlanTypeOK, CallTypeOK
  <2>2. QED
    BY <1>1, <2>1, UnchangedTypes DEF rt_wlan_cyclic_check, WlanTypeOK
<1>2. CASE UNCHANGED wlanVars
    BY <1>2, UnchangedTypes DEF wlanVars, WlanTypeOK, callVars
<1>3. QED
    BY <1>1, <1>2, CallerType, WlanThreadType, DeviceType DEF WlanNext

\* Type correctness. The work of the automatic reconnection is never given to
\* rt_wlan_cyclic_check while rt_wlan_auto_connect_run is still at it.
THEOREM WlanTypeCorrect == WlanSpec => []WlanTypeOK
<1>1. WlanInit => WlanTypeOK
    BY WlanInitType
<1>2. WlanTypeOK /\ [WlanNext]_wlanVars => WlanTypeOK'
    BY WlanStepType
<1>3. QED
    BY <1>1, <1>2, PTL DEF WlanSpec

--------------------------------------------------------------------------------
(* The failed assertion *)

HandlerAhead == current = [item |-> "READY", found |-> "handler"]

\* Once the program is started only the automatic reconnection calls.
StartedPlaces ==
    /\ started => place \in {"connect", "mark", "join", "unmark", "joined",
                             "leave", "left", "idle"}
    /\ place = "idle" => started

\* Before main waits for the address nothing has announced one: there is no
\* connection, or its event has made main ready to run before the "wlan" thread.
EarlyMain == ~started /\ place \in BeforeAddress
NothingReady ==
    EarlyMain =>
        /\ net_ready \in {"none", "empty"} /\ ~HandlerAhead
        /\ queue \in Seq(Works \ {"READY"})
        /\ ~(current.item = "netif_is_ready" /\ current.found = "nothing")
NotJoined ==
    EarlyMain =>
        /\ place # "unmark" => "DISCONNECT" \notin asked
        /\ place \in {"start", "scan", "scanned", "connect", "mark"} =>
              /\ link = "down" /\ "JOIN" \notin asked
              /\ "CONNECT" \notin state
        /\ place = "mark" => "CONNECT" \notin copy
        /\ place = "join" /\ (link # "down" \/ "CONNECT" \in state) =>
              answer["JOIN"] # "none"
        /\ place \in {"join", "joined"} /\ "CONNECT" \in state => "CONNECT" \in seen

\* A wait that is going to be answered leaves no handler behind.
AnsweredWait == place = "address" /\ net_ready = "given" => ~HandlerAhead

Detached ==
    net_ready = "detached" =>
        /\ ~EarlyMain /\ ~ready_handler
        /\ HandlerAhead => waited = "timeout"

StuckThread == stuck => net_ready = "detached" /\ waited = "timeout"

WlanInv == /\ WlanTypeOK /\ StartedPlaces /\ NothingReady /\ NotJoined
           /\ AnsweredWait /\ Detached /\ StuckThread

LEMMA StartedPlacesStep ==
    ASSUME WlanInv, WlanNext
    PROVE  StartedPlaces'
<1> USE DEF WlanInv, StartedPlaces, Goto, At, ConnectReturns, callVars
<1>1. CASE Start
    BY <1>1 DEF Start
<1>2. CASE ScanAnswered
    BY <1>2 DEF ScanAnswered
<1>3. CASE ScanIsDone
    BY <1>3 DEF ScanIsDone
<1>4. CASE AddressWaitEnds
    BY <1>4 DEF AddressWaitEnds
<1>5. CASE PauseEnds
    BY <1>5 DEF PauseEnds
<1>6. CASE Enable
    BY <1>6 DEF Enable
<1>7. CASE rt_wlan_auto_connect_run
    BY <1>7 DEF rt_wlan_auto_connect_run
<1>8. CASE Connect
    BY <1>8 DEF Connect
<1>9. CASE Mark
    BY <1>9 DEF Mark
<1>10. CASE JoinAnswered
    BY <1>10 DEF JoinAnswered
<1>11. CASE Unmark
    BY <1>11 DEF Unmark
<1>12. CASE JoinWaitEnds
    BY <1>12 DEF JoinWaitEnds
<1>13. CASE LeaveAnswered
    BY <1>13 DEF LeaveAnswered, LeaveReturns
<1>14. CASE LeaveWaitEnds
    BY <1>14 DEF LeaveWaitEnds, LeaveReturns
<1>15. CASE rt_wlan_cyclic_check
    BY <1>15 DEF rt_wlan_cyclic_check
<1>16. CASE WorkBegins
    BY <1>16 DEF WorkBegins
<1>17. CASE HandlerRuns
    BY <1>17 DEF HandlerRuns
<1>18. CASE AssertionFails
    BY <1>18 DEF AssertionFails
<1>19. CASE netif_set_connected
    BY <1>19 DEF netif_set_connected
<1>20. CASE netif_is_ready
    BY <1>20 DEF netif_is_ready
<1>21. CASE timer_callback
    BY <1>21 DEF timer_callback
<1>22. CASE AccessPointChanges
    BY <1>22 DEF AccessPointChanges
<1>23. CASE AddressComes
    BY <1>23 DEF AddressComes
<1>24. ASSUME NEW c \in Commands, Accepts(c) PROVE StartedPlaces'
    BY <1>24 DEF Accepts
<1>25. ASSUME NEW c \in Commands, Refuses(c) PROVE StartedPlaces'
    BY <1>25 DEF Refuses
<1>26. ASSUME NEW e \in DevEvents, Report(e) PROVE StartedPlaces'
    BY <1>26 DEF Report
<1>27. QED
    BY <1>1, <1>2, <1>3, <1>4, <1>5, <1>6, <1>7, <1>8, <1>9, <1>10, <1>11, <1>12, <1>13, <1>14, <1>15, <1>16, <1>17, <1>18, <1>19, <1>20, <1>21, <1>22, <1>23, <1>24, <1>25, <1>26 DEF WlanNext, Caller, WlanThread, Device

LEMMA AnsweredWaitStep ==
    ASSUME WlanInv, WlanNext
    PROVE  AnsweredWait'
<1> USE DEF WlanInv, StartedPlaces, NothingReady, NotJoined, AnsweredWait, EarlyMain, BeforeAddress, HandlerAhead, Goto, At, ConnectReturns, callVars, semVars, threadVars
<1>1. CASE Start
    BY <1>1 DEF Start
<1>2. CASE ScanAnswered
    BY <1>2 DEF ScanAnswered
<1>3. CASE ScanIsDone
    BY <1>3 DEF ScanIsDone
<1>4. CASE AddressWaitEnds
    BY <1>4 DEF AddressWaitEnds
<1>5. CASE PauseEnds
    BY <1>5 DEF PauseEnds
<1>6. CASE Enable
    BY <1>6 DEF Enable
<1>7. CASE rt_wlan_auto_connect_run
    BY <1>7 DEF rt_wlan_auto_connect_run
<1>8. CASE Connect
    BY <1>8 DEF Connect
<1>9. CASE Mark
    BY <1>9 DEF Mark
<1>10. CASE JoinAnswered
    BY <1>10 DEF JoinAnswered
<1>11. CASE Unmark
    BY <1>11 DEF Unmark
<1>12. CASE JoinWaitEnds
    BY <1>12 DEF JoinWaitEnds
<1>13. CASE LeaveAnswered
    BY <1>13 DEF LeaveAnswered, LeaveReturns
<1>14. CASE LeaveWaitEnds
    BY <1>14 DEF LeaveWaitEnds, LeaveReturns
<1>15. CASE rt_wlan_cyclic_check
    BY <1>15 DEF rt_wlan_cyclic_check
<1>16. CASE WorkBegins
    BY <1>16 DEF WorkBegins, WlanThreadRuns, Due
<1>17. CASE HandlerRuns
    BY <1>17 DEF HandlerRuns, WorkEnds, Idle
<1>18. CASE AssertionFails
    BY <1>18 DEF AssertionFails
<1>19. CASE netif_set_connected
    BY <1>19 DEF netif_set_connected, WorkEnds, Idle
<1>20. CASE netif_is_ready
    BY <1>20 DEF netif_is_ready, WorkEnds, Idle
<1>21. CASE timer_callback
    BY <1>21 DEF timer_callback
<1>22. CASE AccessPointChanges
    BY <1>22 DEF AccessPointChanges
<1>23. CASE AddressComes
    BY <1>23 DEF AddressComes
<1>24. ASSUME NEW c \in Commands, Accepts(c) PROVE AnsweredWait'
    BY <1>24 DEF Accepts
<1>25. ASSUME NEW c \in Commands, Refuses(c) PROVE AnsweredWait'
    BY <1>25 DEF Refuses
<1>26. ASSUME NEW e \in DevEvents, Report(e) PROVE AnsweredWait'
    BY <1>26 DEF Report
<1>27. QED
    BY <1>1, <1>2, <1>3, <1>4, <1>5, <1>6, <1>7, <1>8, <1>9, <1>10, <1>11, <1>12, <1>13, <1>14, <1>15, <1>16, <1>17, <1>18, <1>19, <1>20, <1>21, <1>22, <1>23, <1>24, <1>25, <1>26 DEF WlanNext, Caller, WlanThread, Device

LEMMA DetachedStep ==
    ASSUME WlanInv, WlanNext
    PROVE  Detached'
<1> USE DEF WlanInv, StartedPlaces, NothingReady, NotJoined, AnsweredWait, Detached, EarlyMain, BeforeAddress, HandlerAhead, Goto, At, ConnectReturns, callVars, semVars, threadVars
<1>1. CASE Start
    BY <1>1 DEF Start
<1>2. CASE ScanAnswered
    BY <1>2 DEF ScanAnswered
<1>3. CASE ScanIsDone
    BY <1>3 DEF ScanIsDone
<1>4. CASE AddressWaitEnds
    BY <1>4 DEF AddressWaitEnds
<1>5. CASE PauseEnds
    BY <1>5 DEF PauseEnds
<1>6. CASE Enable
    BY <1>6 DEF Enable
<1>7. CASE rt_wlan_auto_connect_run
    BY <1>7 DEF rt_wlan_auto_connect_run
<1>8. CASE Connect
    BY <1>8 DEF Connect
<1>9. CASE Mark
    BY <1>9 DEF Mark
<1>10. CASE JoinAnswered
    BY <1>10 DEF JoinAnswered
<1>11. CASE Unmark
    BY <1>11 DEF Unmark
<1>12. CASE JoinWaitEnds
    BY <1>12 DEF JoinWaitEnds
<1>13. CASE LeaveAnswered
    BY <1>13 DEF LeaveAnswered, LeaveReturns
<1>14. CASE LeaveWaitEnds
    BY <1>14 DEF LeaveWaitEnds, LeaveReturns
<1>15. CASE rt_wlan_cyclic_check
    BY <1>15 DEF rt_wlan_cyclic_check
<1>16. CASE WorkBegins
    BY <1>16 DEF WorkBegins, Lookup
<1>17. CASE HandlerRuns
    BY <1>17 DEF HandlerRuns, WorkEnds, Idle
<1>18. CASE AssertionFails
    BY <1>18 DEF AssertionFails
<1>19. CASE netif_set_connected
    BY <1>19 DEF netif_set_connected, WorkEnds, Idle
<1>20. CASE netif_is_ready
    BY <1>20 DEF netif_is_ready, WorkEnds, Idle
<1>21. CASE timer_callback
    BY <1>21 DEF timer_callback
<1>22. CASE AccessPointChanges
    BY <1>22 DEF AccessPointChanges
<1>23. CASE AddressComes
    BY <1>23 DEF AddressComes
<1>24. ASSUME NEW c \in Commands, Accepts(c) PROVE Detached'
    BY <1>24 DEF Accepts
<1>25. ASSUME NEW c \in Commands, Refuses(c) PROVE Detached'
    BY <1>25 DEF Refuses
<1>26. ASSUME NEW e \in DevEvents, Report(e) PROVE Detached'
    BY <1>26 DEF Report
<1>27. QED
    BY <1>1, <1>2, <1>3, <1>4, <1>5, <1>6, <1>7, <1>8, <1>9, <1>10, <1>11, <1>12, <1>13, <1>14, <1>15, <1>16, <1>17, <1>18, <1>19, <1>20, <1>21, <1>22, <1>23, <1>24, <1>25, <1>26 DEF WlanNext, Caller, WlanThread, Device

LEMMA StuckThreadStep ==
    ASSUME WlanInv, WlanNext
    PROVE  StuckThread'
<1> USE DEF WlanInv, StartedPlaces, Detached, StuckThread, EarlyMain, BeforeAddress, HandlerAhead, Goto, At, callVars, semVars, threadVars
<1>1. CASE Start
    BY <1>1 DEF Start
<1>2. CASE ScanAnswered
    BY <1>2 DEF ScanAnswered
<1>3. CASE ScanIsDone
    BY <1>3 DEF ScanIsDone
<1>4. CASE AddressWaitEnds
    BY <1>4 DEF AddressWaitEnds
<1>5. CASE PauseEnds
    BY <1>5 DEF PauseEnds
<1>6. CASE Enable
    BY <1>6 DEF Enable
<1>7. CASE rt_wlan_auto_connect_run
    BY <1>7 DEF rt_wlan_auto_connect_run
<1>8. CASE Connect
    BY <1>8 DEF Connect
<1>9. CASE Mark
    BY <1>9 DEF Mark
<1>10. CASE JoinAnswered
    BY <1>10 DEF JoinAnswered
<1>11. CASE Unmark
    BY <1>11 DEF Unmark
<1>12. CASE JoinWaitEnds
    BY <1>12 DEF JoinWaitEnds
<1>13. CASE LeaveAnswered
    BY <1>13 DEF LeaveAnswered, LeaveReturns
<1>14. CASE LeaveWaitEnds
    BY <1>14 DEF LeaveWaitEnds, LeaveReturns
<1>15. CASE rt_wlan_cyclic_check
    BY <1>15 DEF rt_wlan_cyclic_check
<1>16. CASE WorkBegins
    BY <1>16 DEF WorkBegins
<1>17. CASE HandlerRuns
    BY <1>17 DEF HandlerRuns, WorkEnds, Idle
<1>18. CASE AssertionFails
    BY <1>18 DEF AssertionFails
<1>19. CASE netif_set_connected
    BY <1>19 DEF netif_set_connected, WorkEnds, Idle
<1>20. CASE netif_is_ready
    BY <1>20 DEF netif_is_ready, WorkEnds, Idle
<1>21. CASE timer_callback
    BY <1>21 DEF timer_callback
<1>22. CASE AccessPointChanges
    BY <1>22 DEF AccessPointChanges
<1>23. CASE AddressComes
    BY <1>23 DEF AddressComes
<1>24. ASSUME NEW c \in Commands, Accepts(c) PROVE StuckThread'
    BY <1>24 DEF Accepts
<1>25. ASSUME NEW c \in Commands, Refuses(c) PROVE StuckThread'
    BY <1>25 DEF Refuses
<1>26. ASSUME NEW e \in DevEvents, Report(e) PROVE StuckThread'
    BY <1>26 DEF Report
<1>27. QED
    BY <1>1, <1>2, <1>3, <1>4, <1>5, <1>6, <1>7, <1>8, <1>9, <1>10, <1>11, <1>12, <1>13, <1>14, <1>15, <1>16, <1>17, <1>18, <1>19, <1>20, <1>21, <1>22, <1>23, <1>24, <1>25, <1>26 DEF WlanNext, Caller, WlanThread, Device

LEMMA NotJoinedStep ==
    ASSUME WlanInv, WlanNext
    PROVE  NotJoined'
<1> USE DEF WlanInv, StartedPlaces, NotJoined, EarlyMain, BeforeAddress, Goto, At, ConnectReturns, Send, Take, callVars, mgntVars, chipVars, Commands
<1>1. CASE Start
    BY <1>1 DEF Start
<1>2. CASE ScanAnswered
    BY <1>2 DEF ScanAnswered, Answered
<1>3. CASE ScanIsDone
    BY <1>3 DEF ScanIsDone
<1>4. CASE AddressWaitEnds
    BY <1>4 DEF AddressWaitEnds
<1>5. CASE PauseEnds
    BY <1>5 DEF PauseEnds
<1>6. CASE Enable
    BY <1>6 DEF Enable
<1>7. CASE rt_wlan_auto_connect_run
    BY <1>7 DEF rt_wlan_auto_connect_run
<1>8. CASE Connect
    BY <1>8 DEF Connect
<1>9. CASE Mark
    BY <1>9 DEF Mark
<1>10. CASE JoinAnswered
    BY <1>10 DEF JoinAnswered, Answered
<1>11. CASE Unmark
    BY <1>11 DEF Unmark
<1>12. CASE JoinWaitEnds
    BY <1>12 DEF JoinWaitEnds, WaitIsOver
<1>13. CASE LeaveAnswered
    BY <1>13 DEF LeaveAnswered, LeaveReturns
<1>14. CASE LeaveWaitEnds
    BY <1>14 DEF LeaveWaitEnds, LeaveReturns
<1>15. CASE rt_wlan_cyclic_check
    BY <1>15 DEF rt_wlan_cyclic_check
<1>16. CASE WorkBegins
    BY <1>16 DEF WorkBegins
<1>17. CASE HandlerRuns
    BY <1>17 DEF HandlerRuns, WorkEnds, Idle
<1>18. CASE AssertionFails
    BY <1>18 DEF AssertionFails
<1>19. CASE netif_set_connected
    BY <1>19 DEF netif_set_connected, WorkEnds, Idle
<1>20. CASE netif_is_ready
    BY <1>20 DEF netif_is_ready, WorkEnds, Idle
<1>21. CASE timer_callback
    BY <1>21 DEF timer_callback
<1>22. CASE AccessPointChanges
    BY <1>22 DEF AccessPointChanges
<1>23. CASE AddressComes
    BY <1>23 DEF AddressComes
<1>24. ASSUME NEW c \in Commands, Accepts(c) PROVE NotJoined'
    BY <1>24 DEF Accepts, LinkAfter, WlanTypeOK, ChipTypeOK
<1>25. ASSUME NEW c \in Commands, Refuses(c) PROVE NotJoined'
    BY <1>25 DEF Refuses, WlanTypeOK, ChipTypeOK
<1>26. ASSUME NEW e \in DevEvents, Report(e) PROVE NotJoined'
    BY <1>26 DEF Report, Reportable, rt_wlan_event_dispatch, StateAfter, DevEvents
<1>27. QED
    BY <1>1, <1>2, <1>3, <1>4, <1>5, <1>6, <1>7, <1>8, <1>9, <1>10, <1>11, <1>12, <1>13, <1>14, <1>15, <1>16, <1>17, <1>18, <1>19, <1>20, <1>21, <1>22, <1>23, <1>24, <1>25, <1>26 DEF WlanNext, Caller, WlanThread, Device

\* Works that are not READY stay so when the dispatch adds its own.
LEMMA DispatchQuiet ==
    ASSUME NEW e \in DevEvents, rt_wlan_event_dispatch(e), queue \in Seq(Works \ {"READY"})
    PROVE  queue' \in Seq(Works \ {"READY"})
<1>1. PICK kept : queue' = queue \o Queued(e, kept) \o Queued("netif_set_connected", kept)
    BY DEF rt_wlan_event_dispatch
<1>2. \A w \in Works \ {"READY"} : Queued(w, kept) \in Seq(Works \ {"READY"})
    BY QueuedType
<1>3. e \in Works \ {"READY"} /\ "netif_set_connected" \in Works \ {"READY"}
    BY DEF Works, DevEvents
<1>4. QED
    BY <1>1, <1>2, <1>3

LEMMA NothingReadyStep ==
    ASSUME WlanInv, WlanNext
    PROVE  NothingReady'
<1> USE DEF WlanInv, StartedPlaces, NothingReady, NotJoined, EarlyMain, BeforeAddress, HandlerAhead, Goto, At, ConnectReturns, callVars, semVars, threadVars
<1>1. CASE Start
    BY <1>1 DEF Start
<1>2. CASE ScanAnswered
    BY <1>2 DEF ScanAnswered
<1>3. CASE ScanIsDone
    BY <1>3 DEF ScanIsDone
<1>4. CASE AddressWaitEnds
    BY <1>4 DEF AddressWaitEnds
<1>5. CASE PauseEnds
    BY <1>5 DEF PauseEnds
<1>6. CASE Enable
    BY <1>6 DEF Enable
<1>7. CASE rt_wlan_auto_connect_run
    BY <1>7 DEF rt_wlan_auto_connect_run
<1>8. CASE Connect
    BY <1>8 DEF Connect
<1>9. CASE Mark
    BY <1>9 DEF Mark
<1>10. CASE JoinAnswered
    BY <1>10 DEF JoinAnswered
<1>11. CASE Unmark
    BY <1>11 DEF Unmark
<1>12. CASE JoinWaitEnds
    BY <1>12 DEF JoinWaitEnds
<1>13. CASE LeaveAnswered
    BY <1>13 DEF LeaveAnswered, LeaveReturns
<1>14. CASE LeaveWaitEnds
    BY <1>14 DEF LeaveWaitEnds, LeaveReturns
<1>15. CASE rt_wlan_cyclic_check
    BY <1>15 DEF rt_wlan_cyclic_check
<1>16. CASE WorkBegins
  <2>1. UNCHANGED <<callVars, semVars>> /\ queue # <<>> /\ queue' = Tail(queue)
        /\ current' = [item |-> Head(queue), found |-> Lookup(Head(queue))]
    BY <1>16 DEF WorkBegins
  <2>2. ASSUME EarlyMain PROVE "CONNECT" \notin state /\ Head(queue) # "READY"
    <3>1. Head(queue) # "READY"
      BY <2>1, <2>2
    <3>2. ~Due
      BY <1>16, <2>2 DEF WorkBegins, WlanThreadRuns
    <3>3. "CONNECT" \notin state
      BY <2>2, <3>2 DEF Due, Joined
    <3>4. QED
      BY <3>1, <3>3
  <2>3. ASSUME EarlyMain PROVE queue' \in Seq(Works \ {"READY"})
    BY <2>1, <2>3
  <2>4. ASSUME EarlyMain, Head(queue) = "netif_is_ready"
        PROVE  Lookup(Head(queue)) = "retry"
    <3>1. "CONNECT" \notin state => Lookup("netif_is_ready") = "retry"
      BY DEF Lookup, WlanTypeOK, CallTypeOK, NetTypeOK
    <3>2. QED
      BY <2>2, <2>4, <3>1
  <2>5. QED
    BY <2>1, <2>2, <2>3, <2>4
<1>17. CASE HandlerRuns
  <2>1. EarlyMain => ~(current.item = "READY" /\ current.found = "handler")
    BY DEF WlanTypeOK, ThreadTypeOK
  <2>2. QED
    BY <1>17, <2>1 DEF HandlerRuns, WorkEnds, Idle
<1>18. CASE AssertionFails
    BY <1>18 DEF AssertionFails
<1>19. CASE netif_set_connected
    BY <1>19 DEF netif_set_connected, WorkEnds, Idle
<1>20. CASE netif_is_ready
    BY <1>20 DEF netif_is_ready, WorkEnds, Idle
<1>21. CASE timer_callback
    BY <1>21 DEF timer_callback, Works
<1>22. CASE AccessPointChanges
    BY <1>22 DEF AccessPointChanges
<1>23. CASE AddressComes
    BY <1>23 DEF AddressComes
<1>24. ASSUME NEW c \in Commands, Accepts(c) PROVE NothingReady'
    BY <1>24 DEF Accepts
<1>25. ASSUME NEW c \in Commands, Refuses(c) PROVE NothingReady'
    BY <1>25 DEF Refuses
<1>26. ASSUME NEW e \in DevEvents, Report(e) PROVE NothingReady'
    BY <1>26, DispatchQuiet DEF Report
<1>27. QED
    BY <1>1, <1>2, <1>3, <1>4, <1>5, <1>6, <1>7, <1>8, <1>9, <1>10, <1>11, <1>12, <1>13, <1>14, <1>15, <1>16, <1>17, <1>18, <1>19, <1>20, <1>21, <1>22, <1>23, <1>24, <1>25, <1>26 DEF WlanNext, Caller, WlanThread, Device

LEMMA WlanInitInv == WlanInit => WlanInv
<1> SUFFICES ASSUME WlanInit PROVE WlanInv
    OBVIOUS
<1>1. queue = <<>> /\ current = Idle
    BY DEF WlanInit
<1>2. queue \in Seq(Works \ {"READY"}) /\ ~HandlerAhead
    BY <1>1 DEF HandlerAhead, Idle
<1>3. StartedPlaces /\ NotJoined /\ AnsweredWait /\ Detached /\ StuckThread
    BY DEF WlanInit, StartedPlaces, NotJoined, AnsweredWait, Detached, StuckThread
<1>4. NothingReady
  <2>1. net_ready = "none"
    BY DEF WlanInit
  <2>2. current.item = "none"
    BY <1>1 DEF Idle
  <2>3. QED
    BY <1>2, <2>1, <2>2 DEF NothingReady
<1>5. QED
    BY WlanInitType, <1>3, <1>4 DEF WlanInv

LEMMA WlanStepInv == WlanInv /\ [WlanNext]_wlanVars => WlanInv'
<1> SUFFICES ASSUME WlanInv, [WlanNext]_wlanVars PROVE WlanInv'
    OBVIOUS
<1>1. WlanTypeOK'
    BY WlanStepType DEF WlanInv
<1>2. CASE WlanNext
    BY <1>1, <1>2, StartedPlacesStep, NothingReadyStep, NotJoinedStep, AnsweredWaitStep,
       DetachedStep, StuckThreadStep DEF WlanInv
<1>3. CASE UNCHANGED wlanVars
    BY <1>1, <1>3 DEF WlanInv, StartedPlaces, NothingReady, NotJoined, AnsweredWait, Detached,
       StuckThread, EarlyMain, HandlerAhead, wlanVars, callVars, mgntVars, semVars,
       threadVars, chipVars
<1>4. QED
    BY <1>2, <1>3

\* The "wlan" thread runs into the failed assertion of rt_sem_release only after
\* main's wait for the address has timed out.
THEOREM WlanAssertion == WlanSpec => []AssertionOnlyAfterTimeout
<1>1. WlanInit => WlanInv
    BY WlanInitInv
<1>2. WlanInv /\ [WlanNext]_wlanVars => WlanInv'
    BY WlanStepInv
<1>3. WlanInv => AssertionOnlyAfterTimeout
    BY DEF WlanInv, StuckThread, AssertionOnlyAfterTimeout
<1>4. QED
    BY <1>1, <1>2, <1>3, PTL DEF WlanSpec

===============================================================================
