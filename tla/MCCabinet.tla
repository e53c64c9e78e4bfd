------------------------------ MODULE MCCabinet ------------------------------
(* TLC instance of Cabinet. A tick stands for more than five seconds. *)
EXTENDS Cabinet, TLC

MCMessages == {"Please place", "Finger Failed", "Lock Failed", "RFID Scanning",
               "Scan Result", "Press KEY2"}
MCResults == {"ITEM_1", "NONE"}
MCItem1 == "ITEM_1"
MCItemResults == {"ITEM_1"}

\* No user is different from another.
UsersAlike == Permutations(FingerIds)

\* The display decides nothing while no thread is deleted, and without a servo
\* no scan is ever taken; packets that match nobody all end the attempt or are
\* skipped, and one match between two sessions is as good as several. MCFinger
\* has these cases; here one kind of packet stands for each outcome.
EssentialCases ==
    /\ lcd_mutex = "null" /\ servo_pwm
    /\ \A i \in DOMAIN rx : rx[i].kind = "failure" \/ rx[i].id \in FingerIds
    /\ Cardinality(verdicts) <= 1
===============================================================================
