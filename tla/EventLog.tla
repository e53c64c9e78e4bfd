------------------------------- MODULE EventLog -------------------------------
(***************************************************************************)
(* What the message module promises the cloud, with none of its flags or   *)
(* buffers: a fingerprint match opens one entry of the log; the first scan *)
(* after it closes the entry and reports user, operation and item together *)
(* (at most once: a report may be lost); a later scan may still be         *)
(* reported under nobody's name while an earlier match is remembered.      *)
(***************************************************************************)
EXTENDS Sequences

CONSTANTS Ids,        \* fingerprint ids the sensor can match
          Nobody,     \* the id an unattributed report carries
          Operations, \* what a user can ask for
          Items,      \* what a scan can find
          NoEntry,    \* no entry is open
          NoOperation \* no match is remembered

VARIABLES entry,      \* the match that waits for its scan, or NoEntry
          remembered, \* the operation of the last match, or NoOperation
          outbox      \* reports on their way to the cloud

logVars == <<entry, remembered, outbox>>

Entry == [user : Ids \cup {Nobody}, operation : Operations]

Report(user, op, item) == [user |-> user, operation |-> op, item |-> item]

\* A report may be lost on its way out.
Send(r) == outbox' \in {outbox, Append(outbox, r)}

LogInit == entry = NoEntry /\ remembered = NoOperation /\ outbox = <<>>

\* A user was matched. A match whose scan never came is replaced.
Authenticate(user, op) ==
    /\ entry' = [user |-> user, operation |-> op]
    /\ remembered' = op
    /\ UNCHANGED outbox

\* The first scan after a match reports it and closes the entry.
CloseEntry(item) ==
    /\ entry # NoEntry
    /\ Send(Report(entry.user, entry.operation, item))
    /\ entry' = NoEntry
    /\ UNCHANGED remembered

\* A further scan is reported with the remembered operation and no user.
ReportUnattributed(item) ==
    /\ entry = NoEntry
    /\ remembered # NoOperation
    /\ Send(Report(Nobody, remembered, item))
    /\ UNCHANGED <<entry, remembered>>

\* An operator sends a test report, or forgets all matches.
TestReport(r) == Send(r) /\ UNCHANGED <<entry, remembered>>

Forget == entry' = NoEntry /\ remembered' = NoOperation /\ UNCHANGED outbox

Deliver ==
    /\ outbox # <<>>
    /\ outbox' = Tail(outbox)
    /\ UNCHANGED <<entry, remembered>>

LogNext ==
    \/ \E user \in Ids \cup {Nobody}, op \in Operations : Authenticate(user, op)
    \/ \E item \in Items : CloseEntry(item) \/ ReportUnattributed(item)
    \/ \E op \in Operations, item \in Items : TestReport(Report(Nobody, op, item))
    \/ Forget
    \/ Deliver

LogSpec == LogInit /\ [][LogNext]_logVars
===============================================================================
