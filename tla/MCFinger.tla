------------------------------- MODULE MCFinger -------------------------------
(* TLC instance of Finger. *)
EXTENDS Finger

MCMessages == {"Please place", "Finger Failed", "Lock Failed", "RFID Scanning",
               "Scan Result", "Press KEY2"}
===============================================================================
