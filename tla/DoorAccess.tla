------------------------------ MODULE DoorAccess ------------------------------
(***************************************************************************)
(* What the cabinet promises about its door, without keys, retries, packets *)
(* or displays: the door opens only in a session somebody asked for, and    *)
(* only after the sensor has matched a finger since that session began.     *)
(***************************************************************************)
CONSTANT FingerIds

VARIABLES door,     \* "locked" or "open"
          session,  \* a verification was asked for and has not been decided
          verdicts  \* the fingers the sensor has matched since the session began

accessVars == <<door, session, verdicts>>

AccessInit == door \in {"locked", "open"} /\ session = FALSE /\ verdicts = {}

\* The door keeps its position: a session may start while it is open.
BeginSession == ~session /\ session' = TRUE /\ verdicts' = {} /\ UNCHANGED door

\* The sensor may also match a finger when no session asks for it.
SensorMatches(id) == verdicts' = verdicts \cup {id} /\ UNCHANGED <<door, session>>

OpenDoor ==
    /\ session /\ verdicts # {}
    /\ door' = "open"
    /\ UNCHANGED <<session, verdicts>>

EndSession == session /\ session' = FALSE /\ UNCHANGED <<door, verdicts>>

CloseDoor == door' = "locked" /\ UNCHANGED <<session, verdicts>>

AccessNext ==
    \/ BeginSession \/ OpenDoor \/ EndSession \/ CloseDoor
    \/ \E id \in FingerIds : SensorMatches(id)

AccessSpec == AccessInit /\ [][AccessNext]_accessVars
===============================================================================
